---- MODULE Spec2Model ----
(***************************************************************************)
(* Model of the tax services of tambo-template-vite:                       *)
(*   calculateFederalTax / computeFederalTax / computeFICA  (federal)      *)
(*   calculateStateTax                                      (state)        *)
(*   findDeductions                                         (optimizer)    *)
(*   searchTaxRules, getUserLocation, the DeductionFinder and              *)
(*   TaxCalculator components                                              *)
(*                                                                         *)
(* Representation.  Money is an integer number of cents.  A rate is an     *)
(* integer number of 1/RateScale (0.22 is 22000).  A product amount x rate *)
(* is kept exactly as a pair [w, f] meaning w + f/RateScale cents, so that *)
(* every Math.round of the source is a rounding of the exact decimal value *)
(* (half up, as Math.round rounds).  Strings that the code inspects        *)
(* (labels, state abbreviations) are sequences of one-character strings.   *)
(***************************************************************************)
EXTENDS Integers, Sequences, FiniteSets, TLC

VARIABLES pc, request, response,            \* a service call and its outcome
          calculator, taxContext, pendingResults, \* the TaxCalculator component
          bridge, dashboard, invoked,         \* the dashboard bridge
          widget, fetches                     \* a data widget and its requests

vars == <<pc, request, response, calculator, taxContext, pendingResults,
          bridge, dashboard, invoked, widget, fetches>>

service == <<pc, request, response>>

calculatorVars == <<calculator, taxContext, pendingResults>>

bridgeVars == <<bridge, dashboard, invoked>>

widgetVars == <<widget, fetches>>

components == <<calculatorVars, bridgeVars, widgetVars>>

----------------------------------------------------------------------------
(* Decimal arithmetic *)

RateScale == 100000

CentsPerDollar == 100

Dollars(n) == n * CentsPerDollar

Min(a, b) == IF a <= b THEN a ELSE b

Max(a, b) == IF a >= b THEN a ELSE b

\* x * r / RateScale as an exact pair, x in cents (any sign), r >= 0 a rate.
\* The product is split so that no intermediate exceeds 32 bits.
MulRate(x, r) ==
  LET a    == x \div RateScale
      b    == x % RateScale
      c    == b \div 100
      d    == b % 100
      cr   == c * r
      ftot == (cr % 1000) * 100 + d * r
  IN  [w |-> a * r + (cr \div 1000) + (ftot \div RateScale),
       f |-> ftot % RateScale]

ExactZero == [w |-> 0, f |-> 0]

AddExact(p, q) ==
  [w |-> p.w + q.w + ((p.f + q.f) \div RateScale),
   f |-> (p.f + q.f) % RateScale]

\* Math.round(v * 100) / 100 for an exact v: cents, half up.
RoundToCents(p) == p.w + (IF 2 * p.f >= RateScale THEN 1 ELSE 0)

\* Math.round(v) for v a whole number of cents: whole dollars, half up.
MathRound(c) == ((c + 50) \div CentsPerDollar) * CentsPerDollar

\* Math.round(v) for an exact v.
MathRoundExact(p) == MathRound(p.w)

RECURSIVE DivDigits(_, _, _, _)
\* n more decimal digits of r / g (0 <= r < g), then half-up on the rest.
DivDigits(r, g, n, acc) ==
  IF n = 0 THEN acc + (IF 2 * r >= g THEN 1 ELSE 0)
  ELSE DivDigits((r * 10) % g, g, n - 1, acc * 10 + ((r * 10) \div g))

\* Math.round((t / g) * 10000) / 10000 for 0 <= t, 0 < g, in 1/10000.
RoundRatio4(t, g) == DivDigits(t % g, g, 4, t \div g)

RECURSIVE RemDigits(_, _, _)
\* What is left of r / g (0 <= r < g) after n decimal digits.
RemDigits(r, g, n) ==
  IF n = 0 THEN r ELSE RemDigits((r * 10) % g, g, n - 1)

\* (t / g) * 10000 lies exactly halfway between two integers.
RatioOnHalf(t, g) == 2 * RemDigits(t % g, g, 4) = g

----------------------------------------------------------------------------
(* Strings *)

UpperLetters ==
  <<"A","B","C","D","E","F","G","H","I","J","K","L","M",
    "N","O","P","Q","R","S","T","U","V","W","X","Y","Z">>

LowerLetters ==
  <<"a","b","c","d","e","f","g","h","i","j","k","l","m",
    "n","o","p","q","r","s","t","u","v","w","x","y","z">>

\* The case mappings of the ASCII letters; other characters map to themselves.
LowerOf ==
  [c \in { UpperLetters[i] : i \in 1..26 } |->
     LowerLetters[CHOOSE i \in 1..26 : UpperLetters[i] = c]]

UpperOf ==
  [c \in { LowerLetters[i] : i \in 1..26 } |->
     UpperLetters[CHOOSE i \in 1..26 : LowerLetters[i] = c]]

ToLowerChar(c) == IF c \in DOMAIN LowerOf THEN LowerOf[c] ELSE c

ToUpperChar(c) == IF c \in DOMAIN UpperOf THEN UpperOf[c] ELSE c

toLowerCase(s) == [i \in 1..Len(s) |-> ToLowerChar(s[i])]

toUpperCase(s) == [i \in 1..Len(s) |-> ToUpperChar(s[i])]

includes(s, sub) ==
  \E i \in 0..(Len(s) - Len(sub)) : SubSeq(s, i + 1, i + Len(sub)) = sub

RECURSIVE SumAmounts(_)
\* list.reduce((sum, d) => sum + d.amount, 0)
SumAmounts(ds) ==
  IF ds = <<>> THEN 0 ELSE ds[1].amount + SumAmounts(Tail(ds))

----------------------------------------------------------------------------
(* Federal tables and constants *)

FilingStatuses == {"single", "married_joint", "married_separate", "head_of_household"}

NULL == -1

Bracket(rate, min, max) ==
  [rate |-> rate, min |-> Dollars(min),
   max |-> IF max = NULL THEN NULL ELSE Dollars(max)]

\* Mutant: the second bracket of every table starts below the end of the
\* first one.
BRACKETS_Overlapping ==
  [fs \in FilingStatuses |->
     << Bracket(10000, 0, 11600),
        Bracket(12000, 11000, 47150),
        Bracket(22000, 47150, NULL) >>]

BRACKETS ==
  [fs \in FilingStatuses |->
     CASE fs = "single" ->
            << Bracket(10000, 0, 11600),
               Bracket(12000, 11600, 47150),
               Bracket(22000, 47150, 100525),
               Bracket(24000, 100525, 191950),
               Bracket(32000, 191950, 243725),
               Bracket(35000, 243725, 609350),
               Bracket(37000, 609350, NULL) >>
       [] fs = "married_joint" ->
            << Bracket(10000, 0, 23200),
               Bracket(12000, 23200, 94300),
               Bracket(22000, 94300, 201050),
               Bracket(24000, 201050, 383900),
               Bracket(32000, 383900, 487450),
               Bracket(35000, 487450, 731200),
               Bracket(37000, 731200, NULL) >>
       [] fs = "married_separate" ->
            << Bracket(10000, 0, 11600),
               Bracket(12000, 11600, 47150),
               Bracket(22000, 47150, 100525),
               Bracket(24000, 100525, 191950),
               Bracket(32000, 191950, 243725),
               Bracket(35000, 243725, 365600),
               Bracket(37000, 365600, NULL) >>
       [] fs = "head_of_household" ->
            << Bracket(10000, 0, 16550),
               Bracket(12000, 16550, 63100),
               Bracket(22000, 63100, 100500),
               Bracket(24000, 100500, 191950),
               Bracket(32000, 191950, 243700),
               Bracket(35000, 243700, 609350),
               Bracket(37000, 609350, NULL) >> ]

STANDARD_DEDUCTIONS ==
  [fs \in FilingStatuses |->
     CASE fs = "single" -> Dollars(14600)
       [] fs = "married_joint" -> Dollars(29200)
       [] fs = "married_separate" -> Dollars(14600)
       [] fs = "head_of_household" -> Dollars(21900)]

SS_RATE == 6200

SS_WAGE_BASE == Dollars(168600)

MEDICARE_RATE == 1450

MEDICARE_SURTAX_RATE == 900

MEDICARE_SURTAX_THRESHOLD ==
  [fs \in FilingStatuses |->
     CASE fs = "single" -> Dollars(200000)
       [] fs = "married_joint" -> Dollars(250000)
       [] fs = "married_separate" -> Dollars(125000)
       [] fs = "head_of_household" -> Dollars(200000)]

HSA_LIMIT_SELF == Dollars(4150)

LIMIT_401K == Dollars(23000)

IRA_LIMIT == Dollars(7000)

IRA_INCOME_LIMIT_SINGLE == Dollars(87000)

IRA_INCOME_LIMIT_JOINT == Dollars(143000)

----------------------------------------------------------------------------
(* Federal Tax Engine *)

\* Mutant: the bracket's width taken as its upper bound (min not subtracted).
FederalStep_WidthFromZero(bracket, remaining, taxableIncome) ==
  LET taxableAmount == IF bracket.max = NULL THEN remaining
                       ELSE Min(remaining, bracket.max)
      bracketTax    == MulRate(taxableAmount, bracket.rate)
  IN  [taxableAmount |-> taxableAmount,
       bracketTax    |-> bracketTax,
       entry |-> [rate |-> bracket.rate,
                  min  |-> bracket.min,
                  max  |-> IF bracket.max = NULL THEN taxableIncome ELSE bracket.max,
                  taxableAmount |-> taxableAmount,
                  tax  |-> RoundToCents(bracketTax)]]

\* One iteration of the bracket loop of computeFederalTax.
FederalStep(bracket, remaining, taxableIncome) ==
  LET taxableAmount == IF bracket.max = NULL THEN remaining
                       ELSE Min(remaining, bracket.max - bracket.min)
      bracketTax    == MulRate(taxableAmount, bracket.rate)
  IN  [taxableAmount |-> taxableAmount,
       bracketTax    |-> bracketTax,
       entry |-> [rate |-> bracket.rate,
                  min  |-> bracket.min,
                  max  |-> IF bracket.max = NULL THEN taxableIncome ELSE bracket.max,
                  taxableAmount |-> taxableAmount,
                  tax  |-> RoundToCents(bracketTax)]]

RECURSIVE FederalWalk_NoDecrement(_, _, _, _, _, _, _)
\* Mutant: remaining is not reduced by the amount taxed in the bracket.
FederalWalk_NoDecrement(brackets, i, remaining, tax, marginalRate, breakdown, taxableIncome) ==
  IF i > Len(brackets) \/ remaining <= 0
  THEN [tax |-> RoundToCents(tax), marginalRate |-> marginalRate, breakdown |-> breakdown]
  ELSE LET s == FederalStep(brackets[i], remaining, taxableIncome)
       IN  FederalWalk_NoDecrement(brackets, i + 1, remaining,
                       AddExact(tax, s.bracketTax), brackets[i].rate,
                       Append(breakdown, s.entry), taxableIncome)

RECURSIVE FederalWalk_LastBracketOnly(_, _, _, _, _, _, _)
\* Mutant: tax = bracketTax instead of tax += bracketTax.
FederalWalk_LastBracketOnly(brackets, i, remaining, tax, marginalRate, breakdown, taxableIncome) ==
  IF i > Len(brackets) \/ remaining <= 0
  THEN [tax |-> RoundToCents(tax), marginalRate |-> marginalRate, breakdown |-> breakdown]
  ELSE LET s == FederalStep(brackets[i], remaining, taxableIncome)
       IN  FederalWalk_LastBracketOnly(brackets, i + 1, remaining - s.taxableAmount,
                       s.bracketTax, brackets[i].rate,
                       Append(breakdown, s.entry), taxableIncome)

RECURSIVE FederalWalk(_, _, _, _, _, _, _)
\* for (const bracket of brackets) { if (remaining <= 0) break; ... }
FederalWalk(brackets, i, remaining, tax, marginalRate, breakdown, taxableIncome) ==
  IF i > Len(brackets) \/ remaining <= 0
  THEN [tax |-> RoundToCents(tax), marginalRate |-> marginalRate, breakdown |-> breakdown]
  ELSE LET s == FederalStep(brackets[i], remaining, taxableIncome)
       IN  FederalWalk(brackets, i + 1, remaining - s.taxableAmount,
                       AddExact(tax, s.bracketTax), brackets[i].rate,
                       Append(breakdown, s.entry), taxableIncome)

computeFederalTax(taxableIncome, filingStatus) ==
  FederalWalk(BRACKETS[filingStatus], 1, Max(0, taxableIncome),
              ExactZero, 0, <<>>, taxableIncome)

\* Mutant: Social Security charged on the whole gross income (no wage base).
computeFICA_NoWageBase(grossIncome, filingStatus) ==
  LET ssTax           == MulRate(grossIncome, SS_RATE)
      medicareTax     == MulRate(grossIncome, MEDICARE_RATE)
      surtaxThreshold == MEDICARE_SURTAX_THRESHOLD[filingStatus]
      surtax          == IF grossIncome > surtaxThreshold
                         THEN MulRate(grossIncome - surtaxThreshold, MEDICARE_SURTAX_RATE)
                         ELSE ExactZero
  IN  RoundToCents(AddExact(AddExact(ssTax, medicareTax), surtax))

computeFICA(grossIncome, filingStatus) ==
  LET ssTax           == MulRate(Min(grossIncome, SS_WAGE_BASE), SS_RATE)
      medicareTax     == MulRate(grossIncome, MEDICARE_RATE)
      surtaxThreshold == MEDICARE_SURTAX_THRESHOLD[filingStatus]
      surtax          == IF grossIncome > surtaxThreshold
                         THEN MulRate(grossIncome - surtaxThreshold, MEDICARE_SURTAX_RATE)
                         ELSE ExactZero
  IN  RoundToCents(AddExact(AddExact(ssTax, medicareTax), surtax))

L401k == <<"4","0","1","k">>

Lhsa == <<"h","s","a">>

Lstandard == <<"s","t","a","n","d","a","r","d">>

\* Mutant: the label is matched without lower-casing it.
IsPreTax_CaseSensitive(d) ==
  includes(d.label, L401k) \/ includes(d.label, Lhsa)

\* d.label.toLowerCase().includes("401k") || d.label.toLowerCase().includes("hsa")
IsPreTax(d) ==
  includes(toLowerCase(d.label), L401k) \/ includes(toLowerCase(d.label), Lhsa)

calculateFederalTax(input) ==
  LET grossIncome     == input.grossIncome
      filingStatus    == input.filingStatus
      deductions      == input.deductions
      totalDeductions == SumAmounts(deductions)
      taxableIncome   == Max(0, grossIncome - totalDeductions)
      fed             == computeFederalTax(taxableIncome, filingStatus)
      ficaTax         == computeFICA(grossIncome, filingStatus)
      totalTax        == fed.tax + ficaTax
      effectiveRate   == IF grossIncome > 0 THEN RoundRatio4(totalTax, grossIncome) ELSE 0
      preTaxDeductions == SumAmounts(SelectSeq(deductions, IsPreTax))
      takeHome        == grossIncome - fed.tax - ficaTax - preTaxDeductions
  IN  [grossIncome      |-> grossIncome,
       totalDeductions  |-> totalDeductions,
       taxableIncome    |-> taxableIncome,
       federalTax       |-> MathRound(fed.tax),
       ficaTax          |-> MathRound(ficaTax),
       effectiveRate    |-> effectiveRate,
       marginalRate     |-> fed.marginalRate,
       takeHome         |-> MathRound(takeHome),
       bracketBreakdown |-> fed.breakdown]

----------------------------------------------------------------------------
(* Number formatting and text of the Deduction Finder *)

DigitChars == <<"0","1","2","3","4","5","6","7","8","9">>

RECURSIVE ToDigits(_)
\* Decimal digits of n >= 0.
ToDigits(n) ==
  IF n < 10 THEN <<DigitChars[n + 1]>>
  ELSE ToDigits(n \div 10) \o <<DigitChars[(n % 10) + 1]>>

\* `${n}` for an integer n.
NumberToString(n) ==
  IF n < 0 THEN <<"-">> \o ToDigits(-n) ELSE ToDigits(n)

RECURSIVE Grouped(_)
\* Digits of n >= 0 in groups of three separated by commas.
Grouped(n) ==
  IF n < 1000 THEN ToDigits(n)
  ELSE Grouped(n \div 1000) \o <<",">>
         \o <<DigitChars[((n % 1000) \div 100) + 1],
              DigitChars[((n % 100) \div 10) + 1],
              DigitChars[(n % 10) + 1]>>

\* n.toLocaleString() (en-US) for an amount of c cents: grouped dollars and
\* the cents without trailing zero.
toLocaleString(c) ==
  LET a    == IF c < 0 THEN -c ELSE c
      sign == IF c < 0 THEN <<"-">> ELSE <<>>
      frac == IF a % 100 = 0 THEN <<>>
              ELSE IF a % 10 = 0 THEN <<".", DigitChars[((a % 100) \div 10) + 1]>>
              ELSE <<".", DigitChars[((a % 100) \div 10) + 1], DigitChars[(a % 10) + 1]>>
  IN  sign \o Grouped(a \div 100) \o frac

startsWith(s, prefix) ==
  Len(s) >= Len(prefix) /\ SubSeq(s, 1, Len(prefix)) = prefix

TxtStudentLoanInterest ==
  <<"S","t","u","d","e","n","t"," ","L","o","a","n"," ","I","n","t","e","r",
    "e","s","t">>

TxtIncomeExceedsThe ==
  <<"I","n","c","o","m","e"," ","e","x","c","e","e","d","s"," ","t","h","e",
    " ","$">>

TxtPhaseOutLimit ==
  <<" ","p","h","a","s","e","-","o","u","t"," ","l","i","m","i","t">>

TxtMaxOutHSA ==
  <<"M","a","x"," ","O","u","t"," ","H","S","A"," ","(","$">>

TxtCloseParen ==
  <<")">>

TxtHSAContribution ==
  <<"H","S","A"," ","C","o","n","t","r","i","b","u","t","i","o","n">>

TxtAlreadyAtMaximum ==
  <<"A","l","r","e","a","d","y"," ","a","t"," ","m","a","x","i","m","u","m",
    " ","c","o","n","t","r","i","b","u","t","i","o","n">>

TxtTraditionalIRAOpen ==
  <<"T","r","a","d","i","t","i","o","n","a","l"," ","I","R","A"," ","(",
    "$">>

TxtMaxClose ==
  <<" ","m","a","x",")">>

TxtTraditionalIRA ==
  <<"T","r","a","d","i","t","i","o","n","a","l"," ","I","R","A">>

TxtIncomeExceeds ==
  <<"I","n","c","o","m","e"," ","e","x","c","e","e","d","s"," ","$">>

TxtDeductibilityPhaseOut ==
  <<" ","d","e","d","u","c","t","i","b","i","l","i","t","y"," ","p","h","a",
    "s","e","-","o","u","t">>

TxtCharitableItemized ==
  <<"C","h","a","r","i","t","a","b","l","e"," ","D","o","n","a","t","i","o",
    "n","s"," ","(","I","t","e","m","i","z","e","d",")">>

TxtCharitable ==
  <<"C","h","a","r","i","t","a","b","l","e"," ","D","o","n","a","t","i","o",
    "n","s">>

TxtTotalItemized ==
  <<"T","o","t","a","l"," ","i","t","e","m","i","z","e","d"," ","d","e","d",
    "u","c","t","i","o","n","s"," ","(","$">>

TxtDontExceed ==
  <<")"," ","d","o","n","'","t"," ","e","x","c","e","e","d"," ","t","h","e",
    " ","s","t","a","n","d","a","r","d"," ","d","e","d","u","c","t","i","o",
    "n"," ","(","$">>

TxtIncrease401k ==
  <<"I","n","c","r","e","a","s","e"," ","4","0","1","(","k",")"," ","t","o",
    " ","$">>

TxtMax ==
  <<" ","m","a","x">>

Txt401kContribution ==
  <<"4","0","1","(","k",")"," ","C","o","n","t","r","i","b","u","t","i","o",
    "n">>

TxtChildTaxCredit ==
  <<"C","h","i","l","d"," ","T","a","x"," ","C","r","e","d","i","t">>

TxtChildTaxCreditOpen ==
  <<"C","h","i","l","d"," ","T","a","x"," ","C","r","e","d","i","t"," ",
    "(">>

TxtUndefined ==
  <<"u","n","d","e","f","i","n","e","d">>

TxtDependent ==
  <<" ","d","e","p","e","n","d","e","n","t">>

TxtPluralS ==
  <<"s">>

TxtThisIsATaxCredit ==
  <<"T","h","i","s"," ","i","s"," ","a"," ","t","a","x"," ","c","r","e","d",
    "i","t",","," ","n","o","t"," ","a"," ","d","e","d","u","c","t","i","o",
    "n"," ","-"," ","i","t"," ","r","e","d","u","c","e","s"," ","y","o","u",
    "r"," ","t","a","x"," ","b","i","l","l"," ","d","i","r","e","c","t","l",
    "y">>

----------------------------------------------------------------------------
(* Deduction Finder *)

\* An optional input field is absent from the record when undefined.
Defined(input, f) == f \in DOMAIN input

\* input.f is truthy: defined and not 0.
Truthy(input, f) == Defined(input, f) /\ input[f] # 0

\* input.f ?? 0
OrZero(input, f) == IF Defined(input, f) THEN input[f] ELSE 0

\* list.findIndex(pred), given the set of indices at which pred holds;
\* 0 stands for -1.
FindIndex(matches) ==
  IF matches = {} THEN 0
  ELSE CHOOSE i \in matches : \A j \in matches : i <= j

Has401k(d) == includes(toLowerCase(d.label), L401k)

HasHsa(d) == includes(toLowerCase(d.label), Lhsa)

HasStandard(d) == includes(toLowerCase(d.label), Lstandard)

\* Mutant: the explanation is attached to the applicable entry too.
StudentLoanRule_ReasonAlways(input, st) ==
  IF ~(input.hasStudentLoans /\ Truthy(input, "loanBalance")) THEN st
  ELSE
    LET product == MulRate(input.loanBalance, 5000)
        \* Math.round(Math.min(loanBalance * 0.05, 2500))
        amount  == IF product.w >= Dollars(2500) THEN Dollars(2500)
                   ELSE MathRoundExact(product)
        incomeLimit == IF input.filingStatus = "married_joint"
                       THEN Dollars(185000) ELSE Dollars(90000)
    IN  IF input.grossIncome <= incomeLimit
        THEN [found |-> Append(st.found,
                [name |-> TxtStudentLoanInterest, amount |-> amount,
                 annualSavings |-> 0, applicable |-> TRUE,
                 reason |-> TxtIncomeExceedsThe \o toLocaleString(incomeLimit)
                              \o TxtPhaseOutLimit]),
              newDeductions |-> Append(st.newDeductions,
                [label |-> TxtStudentLoanInterest, amount |-> amount])]
        ELSE [found |-> Append(st.found,
                [name |-> TxtStudentLoanInterest, amount |-> 0,
                 annualSavings |-> 0, applicable |-> FALSE,
                 reason |-> TxtIncomeExceedsThe \o toLocaleString(incomeLimit)
                              \o TxtPhaseOutLimit]),
              newDeductions |-> st.newDeductions]

\* 1. Student loan interest deduction
StudentLoanRule(input, st) ==
  IF ~(input.hasStudentLoans /\ Truthy(input, "loanBalance")) THEN st
  ELSE
    LET product == MulRate(input.loanBalance, 5000)
        \* Math.round(Math.min(loanBalance * 0.05, 2500))
        amount  == IF product.w >= Dollars(2500) THEN Dollars(2500)
                   ELSE MathRoundExact(product)
        incomeLimit == IF input.filingStatus = "married_joint"
                       THEN Dollars(185000) ELSE Dollars(90000)
    IN  IF input.grossIncome <= incomeLimit
        THEN [found |-> Append(st.found,
                [name |-> TxtStudentLoanInterest, amount |-> amount,
                 annualSavings |-> 0, applicable |-> TRUE]),
              newDeductions |-> Append(st.newDeductions,
                [label |-> TxtStudentLoanInterest, amount |-> amount])]
        ELSE [found |-> Append(st.found,
                [name |-> TxtStudentLoanInterest, amount |-> 0,
                 annualSavings |-> 0, applicable |-> FALSE,
                 reason |-> TxtIncomeExceedsThe \o toLocaleString(incomeLimit)
                              \o TxtPhaseOutLimit]),
              newDeductions |-> st.newDeductions]

\* Mutant: nothing is reported when the contribution is already at the cap.
HSARule_SilentAtCap(input, st) ==
  IF ~input.hasHSA THEN st
  ELSE
    LET currentContribution    == OrZero(input, "currentHSAContribution")
        maxContribution        == HSA_LIMIT_SELF
        additionalContribution == Max(0, maxContribution - currentContribution)
        hsaIdx                 == FindIndex({ i \in 1..Len(st.newDeductions) : HasHsa(st.newDeductions[i]) })
        entry == [label |-> TxtHSAContribution, amount |-> maxContribution]
    IN  IF additionalContribution > 0
        THEN [found |-> Append(st.found,
                [name |-> TxtMaxOutHSA \o toLocaleString(maxContribution) \o TxtCloseParen,
                 amount |-> additionalContribution,
                 annualSavings |-> 0, applicable |-> TRUE]),
              newDeductions |->
                IF hsaIdx > 0 THEN [st.newDeductions EXCEPT ![hsaIdx] = entry]
                ELSE Append(st.newDeductions, entry)]
        ELSE st

\* 2. HSA contribution increase
HSARule(input, st) ==
  IF ~input.hasHSA THEN st
  ELSE
    LET currentContribution    == OrZero(input, "currentHSAContribution")
        maxContribution        == HSA_LIMIT_SELF
        additionalContribution == Max(0, maxContribution - currentContribution)
        hsaIdx                 == FindIndex({ i \in 1..Len(st.newDeductions) : HasHsa(st.newDeductions[i]) })
        entry == [label |-> TxtHSAContribution, amount |-> maxContribution]
    IN  IF additionalContribution > 0
        THEN [found |-> Append(st.found,
                [name |-> TxtMaxOutHSA \o toLocaleString(maxContribution) \o TxtCloseParen,
                 amount |-> additionalContribution,
                 annualSavings |-> 0, applicable |-> TRUE]),
              newDeductions |->
                IF hsaIdx > 0 THEN [st.newDeductions EXCEPT ![hsaIdx] = entry]
                ELSE Append(st.newDeductions, entry)]
        ELSE [found |-> Append(st.found,
                [name |-> TxtHSAContribution, amount |-> 0,
                 annualSavings |-> 0, applicable |-> FALSE,
                 reason |-> TxtAlreadyAtMaximum]),
              newDeductions |-> st.newDeductions]

\* 3. Traditional IRA contribution
IRARule(input, st) ==
  IF ~input.wantsIRA THEN st
  ELSE
    LET currentContribution == OrZero(input, "currentIRAContribution")
        additionalIRA       == Max(0, IRA_LIMIT - currentContribution)
        incomeLimit         == IF input.filingStatus = "married_joint"
                               THEN IRA_INCOME_LIMIT_JOINT
                               ELSE IRA_INCOME_LIMIT_SINGLE
    IN  IF additionalIRA > 0 /\ input.grossIncome <= incomeLimit
        THEN [found |-> Append(st.found,
                [name |-> TxtTraditionalIRAOpen \o toLocaleString(IRA_LIMIT) \o TxtMaxClose,
                 amount |-> additionalIRA,
                 annualSavings |-> 0, applicable |-> TRUE]),
              newDeductions |-> Append(st.newDeductions,
                [label |-> TxtTraditionalIRA, amount |-> IRA_LIMIT])]
        ELSE IF input.grossIncome > incomeLimit
        THEN [found |-> Append(st.found,
                [name |-> TxtTraditionalIRA, amount |-> 0,
                 annualSavings |-> 0, applicable |-> FALSE,
                 reason |-> TxtIncomeExceeds \o toLocaleString(incomeLimit)
                              \o TxtDeductibilityPhaseOut]),
              newDeductions |-> st.newDeductions]
        ELSE [found |-> Append(st.found,
                [name |-> TxtTraditionalIRA, amount |-> 0,
                 annualSavings |-> 0, applicable |-> FALSE,
                 reason |-> TxtAlreadyAtMaximum]),
              newDeductions |-> st.newDeductions]

IsItemized(d) == ~Has401k(d) /\ ~HasHsa(d) /\ ~HasStandard(d)

\* 4. Charitable donations
CharityRule(input, st) ==
  IF ~(input.donatesCharity /\ Truthy(input, "charityAmount")) THEN st
  ELSE
    LET standardDeduction == STANDARD_DEDUCTIONS[input.filingStatus]
        currentItemized   == SumAmounts(SelectSeq(input.currentDeductions, IsItemized))
        totalItemized     == currentItemized + input.charityAmount
    IN  IF totalItemized > standardDeduction
        THEN [found |-> Append(st.found,
                [name |-> TxtCharitableItemized, amount |-> input.charityAmount,
                 annualSavings |-> 0, applicable |-> TRUE]),
              newDeductions |-> st.newDeductions]
        ELSE [found |-> Append(st.found,
                [name |-> TxtCharitable, amount |-> input.charityAmount,
                 annualSavings |-> 0, applicable |-> FALSE,
                 reason |-> TxtTotalItemized \o toLocaleString(totalItemized)
                              \o TxtDontExceed \o toLocaleString(standardDeduction)
                              \o TxtCloseParen]),
              newDeductions |-> st.newDeductions]

\* input.currentDeductions.find((d) => ...includes("401k"))?.amount ?? 0
current401k(input) ==
  LET idxCurrent == FindIndex({ i \in 1..Len(input.currentDeductions) :
                                  Has401k(input.currentDeductions[i]) })
  IN  IF idxCurrent > 0 THEN input.currentDeductions[idxCurrent].amount ELSE 0

additional401k(input) == Max(0, LIMIT_401K - current401k(input))

\* Mutant: the suggestion is made at the cap too.
K401Rule_AtCapToo(input, st) ==
  LET k401Idx == FindIndex({ i \in 1..Len(st.newDeductions) : Has401k(st.newDeductions[i]) })
      entry   == [label |-> Txt401kContribution, amount |-> LIMIT_401K]
  IN  IF additional401k(input) >= 0
      THEN [found |-> Append(st.found,
              [name |-> TxtIncrease401k \o toLocaleString(LIMIT_401K) \o TxtMax,
               amount |-> additional401k(input),
               annualSavings |-> 0, applicable |-> TRUE]),
            newDeductions |->
              IF k401Idx > 0 THEN [st.newDeductions EXCEPT ![k401Idx] = entry]
              ELSE Append(st.newDeductions, entry)]
      ELSE st

\* 4. 401k increase (if not already maxed)
K401Rule(input, st) ==
  LET k401Idx == FindIndex({ i \in 1..Len(st.newDeductions) : Has401k(st.newDeductions[i]) })
      entry   == [label |-> Txt401kContribution, amount |-> LIMIT_401K]
  IN  IF additional401k(input) > 0
      THEN [found |-> Append(st.found,
              [name |-> TxtIncrease401k \o toLocaleString(LIMIT_401K) \o TxtMax,
               amount |-> additional401k(input),
               annualSavings |-> 0, applicable |-> TRUE]),
            newDeductions |->
              IF k401Idx > 0 THEN [st.newDeductions EXCEPT ![k401Idx] = entry]
              ELSE Append(st.newDeductions, entry)]
      ELSE st

\* `Child Tax Credit (${dependentCount} dependent${dependentCount > 1 ? "s" : ""})`
ChildCreditName(input) ==
  TxtChildTaxCreditOpen
    \o (IF Defined(input, "dependentCount")
        THEN NumberToString(input.dependentCount) ELSE TxtUndefined)
    \o TxtDependent
    \o (IF OrZero(input, "dependentCount") > 1 THEN TxtPluralS ELSE <<>>)
    \o TxtCloseParen

\* 5. Dependents (Child Tax Credit info)
DependentsRule(input, st) ==
  IF ~(input.hasDependents /\ Truthy(input, "dependentCount")) THEN st
  ELSE
    LET totalCredit == input.dependentCount * Dollars(2000)
    IN  [found |-> Append(st.found,
            [name |-> ChildCreditName(input), amount |-> totalCredit,
             annualSavings |-> totalCredit, applicable |-> TRUE,
             reason |-> TxtThisIsATaxCredit]),
          newDeductions |-> st.newDeductions]

RECURSIVE MulDiv(_, _, _)
\* a * b = q * c + r with 0 <= r < c, for 0 <= a, 0 < c, any b; by digits of
\* b so that no intermediate exceeds 32 bits.
MulDiv(a, b, c) ==
  IF -10 < b /\ b < 10
  THEN [q |-> (a * b) \div c, r |-> (a * b) % c]
  ELSE LET h == MulDiv(a, b \div 10, c)
           t == 10 * h.r + a * (b % 10)
       IN  [q |-> 10 * h.q + (t \div c), r |-> t % c]

\* Math.round((amount / total) * savings), savings in cents, result in
\* whole dollars.
ShareOf(amount, total, savings) == MathRound(MulDiv(amount, savings, total).q)

IsDeductionEntry(d) == d.applicable /\ ~startsWith(d.name, TxtChildTaxCredit)

\* Mutant: the whole of the tax savings is split, the credit included.
Distribute_CreditNotNetted(found, input, taxSavings, childCredit) ==
  LET applicableCount ==
        Cardinality({ i \in 1..Len(found) :
                        found[i].applicable /\ found[i].name # ChildCreditName(input) })
      totalApplicableAmount == SumAmounts(SelectSeq(found, IsDeductionEntry))
  IN  IF applicableCount > 0 /\ taxSavings > 0
      THEN [i \in 1..Len(found) |->
              IF IsDeductionEntry(found[i])
              THEN [found[i] EXCEPT !.annualSavings =
                      IF totalApplicableAmount > 0
                      THEN ShareOf(found[i].amount, totalApplicableAmount, taxSavings)
                      ELSE 0]
              ELSE found[i]]
      ELSE found

\* Mutant: the split is made whether or not there are savings.
Distribute_NoSavingsGuard(found, input, taxSavings, childCredit) ==
  LET applicableCount ==
        Cardinality({ i \in 1..Len(found) :
                        found[i].applicable /\ found[i].name # ChildCreditName(input) })
      totalApplicableAmount == SumAmounts(SelectSeq(found, IsDeductionEntry))
  IN  IF applicableCount > 0
      THEN [i \in 1..Len(found) |->
              IF IsDeductionEntry(found[i])
              THEN [found[i] EXCEPT !.annualSavings =
                      IF totalApplicableAmount > 0
                      THEN ShareOf(found[i].amount, totalApplicableAmount,
                                   taxSavings - childCredit)
                      ELSE 0]
              ELSE found[i]]
      ELSE found

\* Distribute savings proportionally
Distribute(found, input, taxSavings, childCredit) ==
  LET applicableCount ==
        Cardinality({ i \in 1..Len(found) :
                        found[i].applicable /\ found[i].name # ChildCreditName(input) })
      totalApplicableAmount == SumAmounts(SelectSeq(found, IsDeductionEntry))
  IN  IF applicableCount > 0 /\ taxSavings > 0
      THEN [i \in 1..Len(found) |->
              IF IsDeductionEntry(found[i])
              THEN [found[i] EXCEPT !.annualSavings =
                      IF totalApplicableAmount > 0
                      THEN ShareOf(found[i].amount, totalApplicableAmount,
                                   taxSavings - childCredit)
                      ELSE 0]
              ELSE found[i]]
      ELSE found

\* Mutant: newDeductions is another name of the caller's array.
SpreadCopy_SameArray(list) == [array |-> "caller", items |-> list]

\* const newDeductions = [...input.currentDeductions]: a new array object
\* holding the caller's entries.  "array" names the array object the slot
\* writes and pushes of the rules go to.
SpreadCopy(list) == [array |-> "working", items |-> list]

\* The rules in the order the handler applies them: the entries found and
\* the working copy of the deduction list.
ApplyRules(input) ==
  LET st0 == [found |-> <<>>,
              newDeductions |-> SpreadCopy(input.currentDeductions).items]
  IN  DependentsRule(input,
        K401Rule(input,
          CharityRule(input,
            IRARule(input,
              HSARule(input,
                StudentLoanRule(input, st0))))))

applicableDeductions(input) == ApplyRules(input).newDeductions

\* The caller's currentDeductions array when the handler returns.  The rules
\* write only to newDeductions (a slot replaced by a new entry, or a push) and
\* never to an entry's fields, so the caller's array holds what the rules
\* wrote exactly when newDeductions is that same array object.
CallerDeductionsAfter(input) ==
  IF SpreadCopy(input.currentDeductions).array = "caller"
  THEN applicableDeductions(input)
  ELSE input.currentDeductions

\* The federal tax of the engine on the working deduction list.
newResult(input) ==
  calculateFederalTax([grossIncome  |-> input.grossIncome,
                       filingStatus |-> input.filingStatus,
                       deductions   |-> applicableDeductions(input)])

childCredit(input) ==
  IF input.hasDependents THEN OrZero(input, "dependentCount") * Dollars(2000) ELSE 0

\* Mutant: the credit is subtracted with no floor.
adjustedNewTax_NoFloor(federalTax, credit) == federalTax - credit

adjustedNewTax(federalTax, credit) == Max(0, federalTax - credit)

findDeductions(input) ==
  LET st  == ApplyRules(input)
      newTax == adjustedNewTax(newResult(input).federalTax, childCredit(input))
      taxSavings == input.currentFederalTax - newTax
      totalAnnualSavings == Max(0, MathRound(input.currentFederalTax - newTax))
      newPreTax == SumAmounts(SelectSeq(st.newDeductions, IsPreTax))
      fica == computeFICA(input.grossIncome, input.filingStatus)
      newTakeHome == input.grossIncome - newTax - fica - newPreTax
      totalTaxNew == newTax + fica
  IN  [deductions          |-> Distribute(st.found, input, taxSavings, childCredit(input)),
       totalAnnualSavings  |-> totalAnnualSavings,
       \* Math.round(totalAnnualSavings / 12)
       totalMonthlySavings |-> Dollars((2 * (totalAnnualSavings \div CentsPerDollar) + 12) \div 24),
       newFederalTax       |-> newTax,
       newEffectiveRate    |-> IF input.grossIncome > 0
                               THEN RoundRatio4(totalTaxNew, input.grossIncome) ELSE 0,
       newTakeHome         |-> MathRound(newTakeHome)]

----------------------------------------------------------------------------
(* State tables *)

STATE_TAX_DATA ==
  (<<"A","K">> :> [name |-> "Alaska",
      abbreviation |-> <<"A","K">>,
      taxType |-> "none"])
  @@
  (<<"F","L">> :> [name |-> "Florida",
      abbreviation |-> <<"F","L">>,
      taxType |-> "none"])
  @@
  (<<"N","V">> :> [name |-> "Nevada",
      abbreviation |-> <<"N","V">>,
      taxType |-> "none"])
  @@
  (<<"N","H">> :> [name |-> "New Hampshire",
      abbreviation |-> <<"N","H">>,
      taxType |-> "none",
      notableCredits |-> << "Interest & dividends tax repealed as of 2025" >>])
  @@
  (<<"S","D">> :> [name |-> "South Dakota",
      abbreviation |-> <<"S","D">>,
      taxType |-> "none"])
  @@
  (<<"T","N">> :> [name |-> "Tennessee",
      abbreviation |-> <<"T","N">>,
      taxType |-> "none"])
  @@
  (<<"T","X">> :> [name |-> "Texas",
      abbreviation |-> <<"T","X">>,
      taxType |-> "none"])
  @@
  (<<"W","A">> :> [name |-> "Washington",
      abbreviation |-> <<"W","A">>,
      taxType |-> "none",
      notableCredits |-> << "Working Families Tax Credit" >>])
  @@
  (<<"W","Y">> :> [name |-> "Wyoming",
      abbreviation |-> <<"W","Y">>,
      taxType |-> "none"])
  @@
  (<<"A","Z">> :> [name |-> "Arizona",
      abbreviation |-> <<"A","Z">>,
      taxType |-> "flat",
      flatRate |-> 2500,
      standardDeduction |-> Dollars(14600),
      notableCredits |-> << "Family tax credit", "School tax credit" >>])
  @@
  (<<"C","O">> :> [name |-> "Colorado",
      abbreviation |-> <<"C","O">>,
      taxType |-> "flat",
      flatRate |-> 4400,
      standardDeduction |-> Dollars(14600),
      notableCredits |-> << "Earned income tax credit (25% of federal)", "Child tax credit" >>])
  @@
  (<<"G","A">> :> [name |-> "Georgia",
      abbreviation |-> <<"G","A">>,
      taxType |-> "flat",
      flatRate |-> 5490,
      standardDeduction |-> Dollars(12000),
      notableCredits |-> << "Low-income credit" >>])
  @@
  (<<"I","D">> :> [name |-> "Idaho",
      abbreviation |-> <<"I","D">>,
      taxType |-> "flat",
      flatRate |-> 5800,
      standardDeduction |-> Dollars(14600),
      notableCredits |-> << "Grocery credit" >>])
  @@
  (<<"I","L">> :> [name |-> "Illinois",
      abbreviation |-> <<"I","L">>,
      taxType |-> "flat",
      flatRate |-> 4950,
      standardDeduction |-> Dollars(0),
      notableCredits |-> << "Earned income credit (20% of federal)", "Property tax credit" >>])
  @@
  (<<"I","N">> :> [name |-> "Indiana",
      abbreviation |-> <<"I","N">>,
      taxType |-> "flat",
      flatRate |-> 3050,
      standardDeduction |-> Dollars(0),
      notableCredits |-> << "Unified tax credit", "County taxes may apply" >>])
  @@
  (<<"K","Y">> :> [name |-> "Kentucky",
      abbreviation |-> <<"K","Y">>,
      taxType |-> "flat",
      flatRate |-> 4000,
      standardDeduction |-> Dollars(3160),
      notableCredits |-> << "Family size tax credit" >>])
  @@
  (<<"M","I">> :> [name |-> "Michigan",
      abbreviation |-> <<"M","I">>,
      taxType |-> "flat",
      flatRate |-> 4250,
      standardDeduction |-> Dollars(0),
      notableCredits |-> << "Home heating credit", "Earned income credit (30% of federal)" >>])
  @@
  (<<"M","S">> :> [name |-> "Mississippi",
      abbreviation |-> <<"M","S">>,
      taxType |-> "flat",
      flatRate |-> 5000,
      standardDeduction |-> Dollars(2300),
      notableCredits |-> << "First $10,000 exempt" >>])
  @@
  (<<"N","C">> :> [name |-> "North Carolina",
      abbreviation |-> <<"N","C">>,
      taxType |-> "flat",
      flatRate |-> 4500,
      standardDeduction |-> Dollars(12750),
      notableCredits |-> << "Child deduction" >>])
  @@
  (<<"P","A">> :> [name |-> "Pennsylvania",
      abbreviation |-> <<"P","A">>,
      taxType |-> "flat",
      flatRate |-> 3070,
      standardDeduction |-> Dollars(0),
      notableCredits |-> << "Tax forgiveness credit", "Local taxes may apply" >>])
  @@
  (<<"U","T">> :> [name |-> "Utah",
      abbreviation |-> <<"U","T">>,
      taxType |-> "flat",
      flatRate |-> 4650,
      standardDeduction |-> Dollars(0),
      notableCredits |-> << "Taxpayer tax credit (effectively reduces rate)", "At-home parent credit" >>])
  @@
  (<<"A","L">> :> [name |-> "Alabama",
      abbreviation |-> <<"A","L">>,
      taxType |-> "progressive",
      standardDeduction |-> Dollars(2500),
      brackets |-> <<
        Bracket(2000, 0, 500),
        Bracket(4000, 500, 3000),
        Bracket(5000, 3000, NULL) >>,
      notableCredits |-> << "Federal tax deduction allowed" >>])
  @@
  (<<"A","R">> :> [name |-> "Arkansas",
      abbreviation |-> <<"A","R">>,
      taxType |-> "progressive",
      standardDeduction |-> Dollars(2270),
      brackets |-> <<
        Bracket(2000, 0, 4300),
        Bracket(4000, 4300, 8500),
        Bracket(4400, 8500, NULL) >>])
  @@
  (<<"C","A">> :> [name |-> "California",
      abbreviation |-> <<"C","A">>,
      taxType |-> "progressive",
      standardDeduction |-> Dollars(5540),
      brackets |-> <<
        Bracket(1000, 0, 10412),
        Bracket(2000, 10412, 24684),
        Bracket(4000, 24684, 38959),
        Bracket(6000, 38959, 54081),
        Bracket(8000, 54081, 68350),
        Bracket(9300, 68350, 349137),
        Bracket(10300, 349137, 418961),
        Bracket(11300, 418961, 698271),
        Bracket(12300, 698271, NULL) >>,
      notableCredits |-> << "Renter's credit", "Earned income tax credit" >>])
  @@
  (<<"C","T">> :> [name |-> "Connecticut",
      abbreviation |-> <<"C","T">>,
      taxType |-> "progressive",
      standardDeduction |-> Dollars(0),
      brackets |-> <<
        Bracket(3000, 0, 10000),
        Bracket(5000, 10000, 50000),
        Bracket(5500, 50000, 100000),
        Bracket(6000, 100000, 200000),
        Bracket(6500, 200000, 250000),
        Bracket(6900, 250000, NULL) >>,
      notableCredits |-> << "Personal tax credit" >>])
  @@
  (<<"D","E">> :> [name |-> "Delaware",
      abbreviation |-> <<"D","E">>,
      taxType |-> "progressive",
      standardDeduction |-> Dollars(3250),
      brackets |-> <<
        Bracket(0, 0, 2000),
        Bracket(2200, 2000, 5000),
        Bracket(3900, 5000, 10000),
        Bracket(4800, 10000, 20000),
        Bracket(5200, 20000, 25000),
        Bracket(5500, 25000, 60000),
        Bracket(6600, 60000, NULL) >>,
      notableCredits |-> << "Earned income credit" >>])
  @@
  (<<"D","C">> :> [name |-> "District of Columbia",
      abbreviation |-> <<"D","C">>,
      taxType |-> "progressive",
      standardDeduction |-> Dollars(14600),
      brackets |-> <<
        Bracket(4000, 0, 10000),
        Bracket(6000, 10000, 40000),
        Bracket(6500, 40000, 60000),
        Bracket(8500, 60000, 250000),
        Bracket(9250, 250000, 500000),
        Bracket(10750, 500000, NULL) >>,
      notableCredits |-> << "Earned income credit (70% of federal)" >>])
  @@
  (<<"H","I">> :> [name |-> "Hawaii",
      abbreviation |-> <<"H","I">>,
      taxType |-> "progressive",
      standardDeduction |-> Dollars(2200),
      brackets |-> <<
        Bracket(1400, 0, 2400),
        Bracket(3200, 2400, 4800),
        Bracket(5500, 4800, 9600),
        Bracket(6400, 9600, 14400),
        Bracket(6800, 14400, 19200),
        Bracket(7200, 19200, 24000),
        Bracket(7600, 24000, 36000),
        Bracket(7900, 36000, 48000),
        Bracket(8250, 48000, 150000),
        Bracket(9000, 150000, 175000),
        Bracket(10000, 175000, 200000),
        Bracket(11000, 200000, NULL) >>,
      notableCredits |-> << "Low-income household renters credit" >>])
  @@
  (<<"I","A">> :> [name |-> "Iowa",
      abbreviation |-> <<"I","A">>,
      taxType |-> "progressive",
      standardDeduction |-> Dollars(2210),
      brackets |-> <<
        Bracket(4400, 0, 6210),
        Bracket(4820, 6210, 31050),
        Bracket(5700, 31050, NULL) >>])
  @@
  (<<"K","S">> :> [name |-> "Kansas",
      abbreviation |-> <<"K","S">>,
      taxType |-> "progressive",
      standardDeduction |-> Dollars(3500),
      brackets |-> <<
        Bracket(3100, 0, 15000),
        Bracket(5250, 15000, 30000),
        Bracket(5700, 30000, NULL) >>,
      notableCredits |-> << "Earned income credit (17% of federal)", "Food sales tax credit" >>])
  @@
  (<<"L","A">> :> [name |-> "Louisiana",
      abbreviation |-> <<"L","A">>,
      taxType |-> "progressive",
      standardDeduction |-> Dollars(4500),
      brackets |-> <<
        Bracket(1850, 0, 12500),
        Bracket(3500, 12500, 50000),
        Bracket(4250, 50000, NULL) >>,
      notableCredits |-> << "Earned income credit" >>])
  @@
  (<<"M","E">> :> [name |-> "Maine",
      abbreviation |-> <<"M","E">>,
      taxType |-> "progressive",
      standardDeduction |-> Dollars(14600),
      brackets |-> <<
        Bracket(5800, 0, 24500),
        Bracket(6750, 24500, 58050),
        Bracket(7150, 58050, NULL) >>,
      notableCredits |-> << "Property tax fairness credit" >>])
  @@
  (<<"M","D">> :> [name |-> "Maryland",
      abbreviation |-> <<"M","D">>,
      taxType |-> "progressive",
      standardDeduction |-> Dollars(2550),
      brackets |-> <<
        Bracket(2000, 0, 1000),
        Bracket(3000, 1000, 2000),
        Bracket(4000, 2000, 3000),
        Bracket(4750, 3000, 100000),
        Bracket(5000, 100000, 125000),
        Bracket(5250, 125000, 150000),
        Bracket(5500, 150000, 250000),
        Bracket(5750, 250000, NULL) >>,
      notableCredits |-> << "Earned income credit (45% of federal)", "Local piggyback taxes apply" >>])
  @@
  (<<"M","A">> :> [name |-> "Massachusetts",
      abbreviation |-> <<"M","A">>,
      taxType |-> "progressive",
      standardDeduction |-> Dollars(0),
      brackets |-> <<
        Bracket(5000, 0, 1000000),
        Bracket(9000, 1000000, NULL) >>,
      notableCredits |-> << "No-tax status for low incomes", "Millionaire's surtax above $1M" >>])
  @@
  (<<"M","N">> :> [name |-> "Minnesota",
      abbreviation |-> <<"M","N">>,
      taxType |-> "progressive",
      standardDeduction |-> Dollars(14575),
      brackets |-> <<
        Bracket(5350, 0, 30070),
        Bracket(6800, 30070, 98760),
        Bracket(7850, 98760, 183340),
        Bracket(9850, 183340, NULL) >>,
      notableCredits |-> << "Working family credit", "K-12 education credit" >>])
  @@
  (<<"M","O">> :> [name |-> "Missouri",
      abbreviation |-> <<"M","O">>,
      taxType |-> "progressive",
      standardDeduction |-> Dollars(14600),
      brackets |-> <<
        Bracket(2000, 0, 1207),
        Bracket(2500, 1207, 2414),
        Bracket(3000, 2414, 3621),
        Bracket(3500, 3621, 4828),
        Bracket(4000, 4828, 6035),
        Bracket(4500, 6035, 7242),
        Bracket(5000, 7242, 8449),
        Bracket(4800, 8449, NULL) >>])
  @@
  (<<"M","T">> :> [name |-> "Montana",
      abbreviation |-> <<"M","T">>,
      taxType |-> "progressive",
      standardDeduction |-> Dollars(14600),
      brackets |-> <<
        Bracket(4700, 0, 20500),
        Bracket(5900, 20500, NULL) >>])
  @@
  (<<"N","E">> :> [name |-> "Nebraska",
      abbreviation |-> <<"N","E">>,
      taxType |-> "progressive",
      standardDeduction |-> Dollars(7900),
      brackets |-> <<
        Bracket(2460, 0, 3700),
        Bracket(3510, 3700, 22170),
        Bracket(5010, 22170, 35730),
        Bracket(5840, 35730, NULL) >>,
      notableCredits |-> << "Earned income credit (10% of federal)" >>])
  @@
  (<<"N","J">> :> [name |-> "New Jersey",
      abbreviation |-> <<"N","J">>,
      taxType |-> "progressive",
      standardDeduction |-> Dollars(0),
      brackets |-> <<
        Bracket(1400, 0, 20000),
        Bracket(1750, 20000, 35000),
        Bracket(3500, 35000, 40000),
        Bracket(5525, 40000, 75000),
        Bracket(6370, 75000, 500000),
        Bracket(8970, 500000, 1000000),
        Bracket(10750, 1000000, NULL) >>,
      notableCredits |-> << "Earned income credit (40% of federal)", "Property tax deduction up to $15,000" >>])
  @@
  (<<"N","M">> :> [name |-> "New Mexico",
      abbreviation |-> <<"N","M">>,
      taxType |-> "progressive",
      standardDeduction |-> Dollars(14600),
      brackets |-> <<
        Bracket(1700, 0, 5500),
        Bracket(3200, 5500, 11000),
        Bracket(4700, 11000, 16000),
        Bracket(4900, 16000, 210000),
        Bracket(5900, 210000, NULL) >>,
      notableCredits |-> << "Low-income comprehensive tax rebate", "Working families tax credit" >>])
  @@
  (<<"N","Y">> :> [name |-> "New York",
      abbreviation |-> <<"N","Y">>,
      taxType |-> "progressive",
      standardDeduction |-> Dollars(8000),
      brackets |-> <<
        Bracket(4000, 0, 8500),
        Bracket(4500, 8500, 11700),
        Bracket(5250, 11700, 13900),
        Bracket(5500, 13900, 80650),
        Bracket(6000, 80650, 215400),
        Bracket(6850, 215400, 1077550),
        Bracket(10900, 1077550, NULL) >>,
      notableCredits |-> << "Earned income credit (30% of federal)", "NYC residents pay additional city tax" >>])
  @@
  (<<"N","D">> :> [name |-> "North Dakota",
      abbreviation |-> <<"N","D">>,
      taxType |-> "progressive",
      standardDeduction |-> Dollars(14600),
      brackets |-> <<
        Bracket(1950, 0, 44725),
        Bracket(2500, 44725, NULL) >>])
  @@
  (<<"O","H">> :> [name |-> "Ohio",
      abbreviation |-> <<"O","H">>,
      taxType |-> "progressive",
      standardDeduction |-> Dollars(0),
      brackets |-> <<
        Bracket(0, 0, 26050),
        Bracket(2750, 26050, 100000),
        Bracket(3500, 100000, NULL) >>,
      notableCredits |-> << "Personal exemption credit", "Joint filing credit", "Local taxes may apply" >>])
  @@
  (<<"O","K">> :> [name |-> "Oklahoma",
      abbreviation |-> <<"O","K">>,
      taxType |-> "progressive",
      standardDeduction |-> Dollars(6350),
      brackets |-> <<
        Bracket(250, 0, 1000),
        Bracket(750, 1000, 2500),
        Bracket(1750, 2500, 3750),
        Bracket(2750, 3750, 4900),
        Bracket(3750, 4900, 7200),
        Bracket(4750, 7200, NULL) >>,
      notableCredits |-> << "Earned income credit (5% of federal)" >>])
  @@
  (<<"O","R">> :> [name |-> "Oregon",
      abbreviation |-> <<"O","R">>,
      taxType |-> "progressive",
      standardDeduction |-> Dollars(2745),
      brackets |-> <<
        Bracket(4750, 0, 4050),
        Bracket(6750, 4050, 10200),
        Bracket(8750, 10200, 125000),
        Bracket(9900, 125000, NULL) >>,
      notableCredits |-> << "Earned income credit (12% of federal)", "No sales tax" >>])
  @@
  (<<"R","I">> :> [name |-> "Rhode Island",
      abbreviation |-> <<"R","I">>,
      taxType |-> "progressive",
      standardDeduction |-> Dollars(10550),
      brackets |-> <<
        Bracket(3750, 0, 73450),
        Bracket(4750, 73450, 166950),
        Bracket(5990, 166950, NULL) >>,
      notableCredits |-> << "Earned income credit (15% of federal)" >>])
  @@
  (<<"S","C">> :> [name |-> "South Carolina",
      abbreviation |-> <<"S","C">>,
      taxType |-> "progressive",
      standardDeduction |-> Dollars(14600),
      brackets |-> <<
        Bracket(0, 0, 3460),
        Bracket(3000, 3460, 17330),
        Bracket(6400, 17330, NULL) >>,
      notableCredits |-> << "Two-earner credit" >>])
  @@
  (<<"V","T">> :> [name |-> "Vermont",
      abbreviation |-> <<"V","T">>,
      taxType |-> "progressive",
      standardDeduction |-> Dollars(14600),
      brackets |-> <<
        Bracket(3350, 0, 45400),
        Bracket(6600, 45400, 110050),
        Bracket(7600, 110050, 229550),
        Bracket(8750, 229550, NULL) >>,
      notableCredits |-> << "Earned income credit (38% of federal)" >>])
  @@
  (<<"V","A">> :> [name |-> "Virginia",
      abbreviation |-> <<"V","A">>,
      taxType |-> "progressive",
      standardDeduction |-> Dollars(8000),
      brackets |-> <<
        Bracket(2000, 0, 3000),
        Bracket(3000, 3000, 5000),
        Bracket(5000, 5000, 17000),
        Bracket(5750, 17000, NULL) >>,
      notableCredits |-> << "Low-income tax credit" >>])
  @@
  (<<"W","V">> :> [name |-> "West Virginia",
      abbreviation |-> <<"W","V">>,
      taxType |-> "progressive",
      standardDeduction |-> Dollars(0),
      brackets |-> <<
        Bracket(2360, 0, 10000),
        Bracket(3150, 10000, 25000),
        Bracket(3540, 25000, 40000),
        Bracket(4720, 40000, 60000),
        Bracket(5120, 60000, NULL) >>])
  @@
  (<<"W","I">> :> [name |-> "Wisconsin",
      abbreviation |-> <<"W","I">>,
      taxType |-> "progressive",
      standardDeduction |-> Dollars(12760),
      brackets |-> <<
        Bracket(3500, 0, 14320),
        Bracket(4400, 14320, 28640),
        Bracket(5300, 28640, 315310),
        Bracket(7650, 315310, NULL) >>,
      notableCredits |-> << "Earned income credit", "Homestead credit" >>])

----------------------------------------------------------------------------
(* State Tax Engine *)

\* stateInfo.notableCredits ?? []
CreditsOf(stateInfo) ==
  IF "notableCredits" \in DOMAIN stateInfo THEN stateInfo.notableCredits ELSE <<>>

\* Mutant: the "none" result built with an empty credit list.
StateNone_DropCredits(stateInfo, abbr) ==
  [stateName          |-> stateInfo.name,
   stateAbbreviation  |-> abbr,
   taxType            |-> "none",
   stateTax           |-> 0,
   stateEffectiveRate |-> 0,
   topRate            |-> 0,
   brackets           |-> <<>>,
   standardDeduction  |-> 0,
   notableCredits     |-> <<>>]

\* if (stateInfo.taxType === "none") return {...}
StateNone(stateInfo, abbr) ==
  [stateName          |-> stateInfo.name,
   stateAbbreviation  |-> abbr,
   taxType            |-> "none",
   stateTax           |-> 0,
   stateEffectiveRate |-> 0,
   topRate            |-> 0,
   brackets           |-> <<>>,
   standardDeduction  |-> 0,
   notableCredits     |-> CreditsOf(stateInfo)]

\* if (stateInfo.taxType === "flat") { ... }
StateFlat(stateInfo, abbr, grossIncome, deduction, taxableIncome) ==
  LET rate == IF "flatRate" \in DOMAIN stateInfo THEN stateInfo.flatRate ELSE 0
      tax  == MathRoundExact(MulRate(taxableIncome, rate))
  IN  [stateName          |-> stateInfo.name,
       stateAbbreviation  |-> abbr,
       taxType            |-> "flat",
       stateTax           |-> tax,
       stateEffectiveRate |-> IF grossIncome > 0 THEN RoundRatio4(tax, grossIncome) ELSE 0,
       topRate            |-> rate,
       brackets           |-> << [min |-> 0, max |-> taxableIncome, rate |-> rate,
                                  taxableAmount |-> taxableIncome, tax |-> tax] >>,
       standardDeduction  |-> deduction,
       notableCredits     |-> CreditsOf(stateInfo)]

\* One iteration of the progressive loop of calculateStateTax.
\* Mutant: the width of a bracket is taken to be its upper limit.
StateStep_WidthFromZero(bracket, remaining, taxableIncome) ==
  LET taxableAmount == IF bracket.max = NULL THEN remaining
                       ELSE Min(remaining, bracket.max)
      bracketTax    == RoundToCents(MulRate(taxableAmount, bracket.rate))
  IN  [taxableAmount |-> taxableAmount,
       bracketTax    |-> bracketTax,
       entry |-> [min  |-> bracket.min,
                  max  |-> IF bracket.max = NULL THEN taxableIncome ELSE bracket.max,
                  rate |-> bracket.rate,
                  taxableAmount |-> taxableAmount,
                  tax  |-> bracketTax]]

StateStep(bracket, remaining, taxableIncome) ==
  LET taxableAmount == IF bracket.max = NULL THEN remaining
                       ELSE Min(remaining, bracket.max - bracket.min)
      bracketTax    == RoundToCents(MulRate(taxableAmount, bracket.rate))
  IN  [taxableAmount |-> taxableAmount,
       bracketTax    |-> bracketTax,
       entry |-> [min  |-> bracket.min,
                  max  |-> IF bracket.max = NULL THEN taxableIncome ELSE bracket.max,
                  rate |-> bracket.rate,
                  taxableAmount |-> taxableAmount,
                  tax  |-> bracketTax]]

RECURSIVE StateWalk_BreakOnNegative(_, _, _, _, _, _, _)
\* Mutant: the loop stops on remaining < 0 instead of remaining <= 0.
StateWalk_BreakOnNegative(brackets, i, remaining, totalTax, topRate, breakdown, taxableIncome) ==
  IF i > Len(brackets) \/ remaining < 0
  THEN [totalTax |-> totalTax, topRate |-> topRate, breakdown |-> breakdown]
  ELSE LET s == StateStep(brackets[i], remaining, taxableIncome)
       IN  StateWalk_BreakOnNegative(brackets, i + 1, remaining - s.taxableAmount,
                     totalTax + s.bracketTax, brackets[i].rate,
                     Append(breakdown, s.entry), taxableIncome)

RECURSIVE StateWalk(_, _, _, _, _, _, _)
\* for (const bracket of brackets) { if (remaining <= 0) break; ... }
StateWalk(brackets, i, remaining, totalTax, topRate, breakdown, taxableIncome) ==
  IF i > Len(brackets) \/ remaining <= 0
  THEN [totalTax |-> totalTax, topRate |-> topRate, breakdown |-> breakdown]
  ELSE LET s == StateStep(brackets[i], remaining, taxableIncome)
       IN  StateWalk(brackets, i + 1, remaining - s.taxableAmount,
                     totalTax + s.bracketTax, brackets[i].rate,
                     Append(breakdown, s.entry), taxableIncome)

\* The progressive branch of calculateStateTax.
StateProgressive(stateInfo, abbr, grossIncome, deduction, taxableIncome) ==
  LET brackets == IF "brackets" \in DOMAIN stateInfo THEN stateInfo.brackets ELSE <<>>
      walk     == StateWalk(brackets, 1, taxableIncome, 0, 0, <<>>, taxableIncome)
      stateTax == MathRound(walk.totalTax)
  IN  [stateName          |-> stateInfo.name,
       stateAbbreviation  |-> abbr,
       taxType            |-> "progressive",
       stateTax           |-> stateTax,
       stateEffectiveRate |-> IF grossIncome > 0 THEN RoundRatio4(stateTax, grossIncome) ELSE 0,
       topRate            |-> walk.topRate,
       brackets           |-> walk.breakdown,
       standardDeduction  |-> deduction,
       notableCredits     |-> CreditsOf(stateInfo)]

\* The part of calculateStateTax after the upper-cased abbreviation abbr is
\* known: a thrown Error is the response [status |-> "error"].
StateTaxFor(abbr, input) ==
  IF abbr \notin DOMAIN STATE_TAX_DATA
  THEN [status |-> "error", message |-> <<"Unknown state abbreviation: ", abbr>>]
  ELSE LET stateInfo     == STATE_TAX_DATA[abbr]
           deduction     == IF "standardDeduction" \in DOMAIN stateInfo
                            THEN stateInfo.standardDeduction ELSE 0
           taxableIncome == Max(0, input.grossIncome - deduction)
       IN  [status |-> "ok",
            value  |->
              IF stateInfo.taxType = "none" THEN StateNone(stateInfo, abbr)
              ELSE IF stateInfo.taxType = "flat"
                   THEN StateFlat(stateInfo, abbr, input.grossIncome, deduction, taxableIncome)
                   ELSE StateProgressive(stateInfo, abbr, input.grossIncome,
                                         deduction, taxableIncome)]

\* Mutant: the table is looked up with the abbreviation as the caller wrote it.
calculateStateTax_NoUpperCase(input) == StateTaxFor(input.stateAbbreviation, input)

\* Mutant: a joint return is taxed on half the income.
calculateStateTax_JointSplit(input) ==
  StateTaxFor(toUpperCase(input.stateAbbreviation),
              [input EXCEPT !.grossIncome =
                 IF input.filingStatus = "married_joint" THEN @ \div 2 ELSE @])

calculateStateTax(input) == StateTaxFor(toUpperCase(input.stateAbbreviation), input)

----------------------------------------------------------------------------
(* Tax-Rule Lookup *)

\* The reference entries by category (en dashes written "-").
TAX_RULES_2025 ==
  ("brackets" :>
     << [title   |-> "2025 Federal Income Tax Brackets (Single Filer)",
        content |-> "10%: $0-$11,925 | 12%: $11,926-$48,475 | 22%: $48,476-$103,350 | 24%: $103,351-$197,300 | 32%: $197,301-$250,525 | 35%: $250,526-$626,350 | 37%: Over $626,350",
        source  |-> "IRS Revenue Procedure 2024-40"],
       [title   |-> "2025 Federal Income Tax Brackets (Married Filing Jointly)",
        content |-> "10%: $0-$23,850 | 12%: $23,851-$96,950 | 22%: $96,951-$206,700 | 24%: $206,701-$394,600 | 32%: $394,601-$501,050 | 35%: $501,051-$751,600 | 37%: Over $751,600",
        source  |-> "IRS Revenue Procedure 2024-40"] >>) @@
  ("standard deduction" :>
     << [title   |-> "2025 Standard Deduction Amounts",
        content |-> "Single: $15,000 | Married Filing Jointly: $30,000 | Head of Household: $22,500 | Married Filing Separately: $15,000. Additional deduction for age 65+/blind: $1,600 (single) or $1,300 (married).",
        source  |-> "IRS Revenue Procedure 2024-40"] >>) @@
  ("fica" :>
     << [title   |-> "2025 FICA Tax Rates",
        content |-> "Social Security: 6.2% on wages up to $176,100 (up from $168,600 in 2024). Medicare: 1.45% on all wages. Additional Medicare Tax: 0.9% on wages over $200,000 (single) or $250,000 (married filing jointly).",
        source  |-> "SSA Fact Sheet 2025"] >>) @@
  ("401k" :>
     << [title   |-> "2025 401(k) Contribution Limits",
        content |-> "Employee elective deferral: $23,500 (up from $23,000 in 2024). Catch-up contribution (age 50+): $7,500. NEW: Super catch-up (ages 60-63): $11,250. Total annual additions limit: $70,000.",
        source  |-> "IRS Notice 2024-80"] >>) @@
  ("hsa" :>
     << [title   |-> "2025 HSA Contribution Limits",
        content |-> "Self-only coverage: $4,300 (up from $4,150 in 2024). Family coverage: $8,550 (up from $8,300 in 2024). Catch-up contribution (age 55+): $1,000. Minimum deductible: $1,650 (self) / $3,300 (family).",
        source  |-> "IRS Revenue Procedure 2024-25"] >>) @@
  ("ira" :>
     << [title   |-> "2025 IRA Contribution Limits",
        content |-> "Traditional and Roth IRA limit: $7,000 (same as 2024). Catch-up (age 50+): $1,000. Roth IRA income phase-out: $150,000-$165,000 (single), $236,000-$246,000 (MFJ). Traditional IRA deductibility phase-out (with employer plan): $79,000-$89,000 (single), $126,000-$146,000 (MFJ).",
        source  |-> "IRS Notice 2024-80"] >>) @@
  ("capital gains" :>
     << [title   |-> "2025 Capital Gains Tax Rates",
        content |-> "0% rate: Up to $48,350 (single) / $96,700 (MFJ). 15% rate: $48,351-$533,400 (single) / $96,701-$600,050 (MFJ). 20% rate: Above $533,400 (single) / $600,050 (MFJ). Net Investment Income Tax: Additional 3.8% for high earners.",
        source  |-> "IRS Revenue Procedure 2024-40"] >>) @@
  ("child tax credit" :>
     << [title   |-> "2025 Child Tax Credit",
        content |-> "Child Tax Credit: $2,000 per qualifying child under 17. Refundable portion (ACTC): up to $1,700. Phase-out begins at $200,000 AGI (single) / $400,000 (MFJ). Dependent care credit: Up to $3,000 for one dependent, $6,000 for two or more.",
        source  |-> "IRS Publication 972"] >>) @@
  ("earned income credit" :>
     << [title   |-> "2025 Earned Income Tax Credit (EITC)",
        content |-> "Maximum credit: $649 (no children), $4,328 (1 child), $7,152 (2 children), $8,046 (3+ children). Investment income limit: $11,950. AGI limits vary by filing status and number of children.",
        source  |-> "IRS Revenue Procedure 2024-40"] >>) @@
  ("estate tax" :>
     << [title   |-> "2025 Estate and Gift Tax",
        content |-> "Estate tax exemption: $13,990,000 per individual (up from $13,610,000 in 2024). Annual gift tax exclusion: $19,000 per recipient (up from $18,000 in 2024). Top estate tax rate: 40%.",
        source  |-> "IRS Revenue Procedure 2024-40"] >>) @@
  ("deadlines" :>
     << [title   |-> "Key Tax Deadlines for 2025-2026 Tax Season",
        content |-> "Jan 15, 2026: Q4 2025 estimated tax due. Jan 31, 2026: W-2s and 1099s must be sent. Apr 15, 2026: 2025 federal return due + Q1 2026 estimated tax. Jun 15, 2026: Q2 2026 estimated tax due. Sep 15, 2026: Q3 2026 estimated tax due. Oct 15, 2026: Extended return deadline.",
        source  |-> "IRS Tax Calendar 2026"] >>) @@
  ("amt" :>
     << [title   |-> "2025 Alternative Minimum Tax (AMT)",
        content |-> "AMT exemption: $88,100 (single) / $137,000 (MFJ). Phase-out begins: $626,350 (single) / $1,252,700 (MFJ). AMT rates: 26% on first $239,100, 28% thereafter.",
        source  |-> "IRS Revenue Procedure 2024-40"] >>)

\* [keywords, category] rows, in the order the handler walks them.
KEYWORD_MAP ==
  << [keywords |-> << <<"b","r","a","c","k","e","t">>,
                     <<"r","a","t","e">>,
                     <<"i","n","c","o","m","e"," ","t","a","x">>,
                     <<"t","a","x"," ","r","a","t","e">>,
                     <<"m","a","r","g","i","n","a","l">> >>,
      category |-> "brackets"],
     [keywords |-> << <<"s","t","a","n","d","a","r","d"," ","d","e","d","u","c","t","i","o","n">>,
                     <<"d","e","d","u","c","t","i","o","n"," ","a","m","o","u","n","t">> >>,
      category |-> "standard deduction"],
     [keywords |-> << <<"f","i","c","a">>,
                     <<"s","o","c","i","a","l"," ","s","e","c","u","r","i","t","y">>,
                     <<"m","e","d","i","c","a","r","e">>,
                     <<"p","a","y","r","o","l","l">> >>,
      category |-> "fica"],
     [keywords |-> << <<"4","0","1","k">>,
                     <<"4","0","1","(","k",")">>,
                     <<"r","e","t","i","r","e","m","e","n","t"," ","c","o","n","t","r","i","b","u","t","i","o","n">> >>,
      category |-> "401k"],
     [keywords |-> << <<"h","s","a">>,
                     <<"h","e","a","l","t","h"," ","s","a","v","i","n","g","s">> >>,
      category |-> "hsa"],
     [keywords |-> << <<"i","r","a">>,
                     <<"i","n","d","i","v","i","d","u","a","l"," ","r","e","t","i","r","e","m","e","n","t">>,
                     <<"r","o","t","h">> >>,
      category |-> "ira"],
     [keywords |-> << <<"c","a","p","i","t","a","l"," ","g","a","i","n">>,
                     <<"l","o","n","g"," ","t","e","r","m">>,
                     <<"s","h","o","r","t"," ","t","e","r","m">>,
                     <<"i","n","v","e","s","t","m","e","n","t"," ","t","a","x">> >>,
      category |-> "capital gains"],
     [keywords |-> << <<"c","h","i","l","d"," ","t","a","x"," ","c","r","e","d","i","t">>,
                     <<"c","t","c">>,
                     <<"d","e","p","e","n","d","e","n","t"," ","c","r","e","d","i","t">>,
                     <<"c","h","i","l","d"," ","c","r","e","d","i","t">> >>,
      category |-> "child tax credit"],
     [keywords |-> << <<"e","i","t","c">>,
                     <<"e","a","r","n","e","d"," ","i","n","c","o","m","e">>,
                     <<"e","i","c">> >>,
      category |-> "earned income credit"],
     [keywords |-> << <<"e","s","t","a","t","e">>,
                     <<"g","i","f","t"," ","t","a","x">>,
                     <<"i","n","h","e","r","i","t","a","n","c","e">> >>,
      category |-> "estate tax"],
     [keywords |-> << <<"d","e","a","d","l","i","n","e">>,
                     <<"d","u","e"," ","d","a","t","e">>,
                     <<"w","h","e","n">>,
                     <<"c","a","l","e","n","d","a","r">>,
                     <<"f","i","l","i","n","g"," ","d","a","t","e">> >>,
      category |-> "deadlines"],
     [keywords |-> << <<"a","m","t">>,
                     <<"a","l","t","e","r","n","a","t","i","v","e"," ","m","i","n","i","m","u","m">> >>,
      category |-> "amt"] >>

\* keywords.some((kw) => query.includes(kw))
SomeKeyword(keywords, query) ==
  \E i \in 1..Len(keywords) : includes(query, keywords[i])

\* Set.add: a Set keeps its members once, in insertion order.
SetAdd(members, x) ==
  IF \E i \in 1..Len(members) : members[i] = x THEN members ELSE Append(members, x)

RECURSIVE MatchCategories(_, _, _)
\* for (const [keywords, category] of KEYWORD_MAP) ...
MatchCategories(i, query, matched) ==
  IF i > Len(KEYWORD_MAP) THEN matched
  ELSE MatchCategories(i + 1, query,
         IF SomeKeyword(KEYWORD_MAP[i].keywords, query)
         THEN SetAdd(matched, KEYWORD_MAP[i].category)
         ELSE matched)

RECURSIVE CollectEntries(_, _)
\* for (const category of matchedCategories) results.push(...entries)
CollectEntries(categories, i) ==
  IF i > Len(categories) THEN <<>>
  ELSE (IF categories[i] \in DOMAIN TAX_RULES_2025
        THEN TAX_RULES_2025[categories[i]] ELSE <<>>)
         \o CollectEntries(categories, i + 1)

\* Mutant: the query is matched as typed, without lower-casing it.
searchTaxRules_CaseSensitive(input) ==
  LET query   == input.query
      matched == MatchCategories(1, query, <<>>)
      matchedCategories ==
        IF Len(matched) = 0
        THEN SetAdd(SetAdd(SetAdd(matched, "brackets"), "standard deduction"), "fica")
        ELSE matched
  IN  [query   |-> input.query,
       results |-> CollectEntries(matchedCategories, 1),
       taxYear |-> 2025]

searchTaxRules(input) ==
  LET query   == toLowerCase(input.query)
      matched == MatchCategories(1, query, <<>>)
      matchedCategories ==
        IF Len(matched) = 0
        THEN SetAdd(SetAdd(SetAdd(matched, "brackets"), "standard deduction"), "fica")
        ELSE matched
  IN  [query   |-> input.query,
       results |-> CollectEntries(matchedCategories, 1),
       taxYear |-> 2025]

----------------------------------------------------------------------------
(* Geolocation *)

STATE_NAME_TO_ABBR ==
  ("Alabama" :> "AL") @@ ("Alaska" :> "AK") @@ ("Arizona" :> "AZ") @@
  ("Arkansas" :> "AR") @@ ("California" :> "CA") @@ ("Colorado" :> "CO") @@
  ("Connecticut" :> "CT") @@ ("Delaware" :> "DE") @@ ("District of Columbia" :> "DC") @@
  ("Florida" :> "FL") @@ ("Georgia" :> "GA") @@ ("Hawaii" :> "HI") @@
  ("Idaho" :> "ID") @@ ("Illinois" :> "IL") @@ ("Indiana" :> "IN") @@
  ("Iowa" :> "IA") @@ ("Kansas" :> "KS") @@ ("Kentucky" :> "KY") @@
  ("Louisiana" :> "LA") @@ ("Maine" :> "ME") @@ ("Maryland" :> "MD") @@
  ("Massachusetts" :> "MA") @@ ("Michigan" :> "MI") @@ ("Minnesota" :> "MN") @@
  ("Mississippi" :> "MS") @@ ("Missouri" :> "MO") @@ ("Montana" :> "MT") @@
  ("Nebraska" :> "NE") @@ ("Nevada" :> "NV") @@ ("New Hampshire" :> "NH") @@
  ("New Jersey" :> "NJ") @@ ("New Mexico" :> "NM") @@ ("New York" :> "NY") @@
  ("North Carolina" :> "NC") @@ ("North Dakota" :> "ND") @@ ("Ohio" :> "OH") @@
  ("Oklahoma" :> "OK") @@ ("Oregon" :> "OR") @@ ("Pennsylvania" :> "PA") @@
  ("Rhode Island" :> "RI") @@ ("South Carolina" :> "SC") @@ ("South Dakota" :> "SD") @@
  ("Tennessee" :> "TN") @@ ("Texas" :> "TX") @@ ("Utah" :> "UT") @@
  ("Vermont" :> "VT") @@ ("Virginia" :> "VA") @@ ("Washington" :> "WA") @@
  ("West Virginia" :> "WV") @@ ("Wisconsin" :> "WI") @@ ("Wyoming" :> "WY")

\* The members every object literal inherits from Object.prototype.
ObjectPrototypeKeys ==
  { "constructor", "hasOwnProperty", "isPrototypeOf", "propertyIsEnumerable",
    "toLocaleString", "toString", "valueOf", "__proto__",
    "__defineGetter__", "__defineSetter__", "__lookupGetter__", "__lookupSetter__" }

\* STATE_NAME_TO_ABBR[region]: the table's own entry, else the inherited
\* member of that name (a function or object, not a string), else undefined.
LookupAbbreviation(region) ==
  IF region \in DOMAIN STATE_NAME_TO_ABBR
    THEN [kind |-> "string", value |-> STATE_NAME_TO_ABBR[region]]
  ELSE IF region \in ObjectPrototypeKeys
    THEN [kind |-> "inherited", value |-> region]
  ELSE [kind |-> "undefined"]

\* The catch block: every error thrown inside is wrapped.
LocationFailure(message) ==
  [status  |-> "error",
   message |-> <<"Failed to detect location: ">> \o message
                 \o <<". Ask the user which state they live in instead.">>]

\* fetch is what the geolocation service did with this call: the request
\* rejected, or a response with its status and body.
getUserLocation(fetch) ==
  IF fetch.kind = "rejected" THEN LocationFailure(<<fetch.message>>)
  ELSE IF ~fetch.ok
    THEN LocationFailure(<<"Geolocation API returned " , fetch.status>>)
  ELSE IF fetch.body # "object"
    \* response.json() rejects, or data is null and data.region throws
    THEN LocationFailure(<<fetch.jsonError>>)
  ELSE
    LET data   == fetch.data
        region == IF "region" \in DOMAIN data THEN data.region ELSE ""
        city   == IF "city" \in DOMAIN data THEN data.city ELSE ""
        abbreviation == LookupAbbreviation(region)
    IN  IF abbreviation.kind = "undefined"
        THEN LocationFailure(<<"Could not map region \"", region,
                               "\" to a US state. The user may be outside the US.">>)
        ELSE [status |-> "ok",
              value  |-> [stateName         |-> region,
                          stateAbbreviation |-> abbreviation,
                          city              |-> city]]

----------------------------------------------------------------------------
(* DeductionFinder component: the income and filing status it computes with *)

\* state?.incomeOverride ?? (taxCtx.state.income > 0 ? taxCtx.state.income : null)
\*   ?? propIncome ?? 0
\* A field that is null or undefined is absent from its record.
resolvedIncome(state, taxCtx, props) ==
  IF Defined(state, "incomeOverride") THEN state.incomeOverride
  ELSE IF taxCtx.income > 0 THEN taxCtx.income
  ELSE IF Defined(props, "grossIncome") THEN props.grossIncome
  ELSE 0

\* (taxCtx.state.income > 0 ? taxCtx.state.filingStatus : null) ?? propFiling
\*   ?? "single"
resolvedFiling(taxCtx, props) ==
  IF taxCtx.income > 0 THEN taxCtx.filingStatus
  ELSE IF Defined(props, "filingStatus") THEN props.filingStatus
  ELSE "single"

----------------------------------------------------------------------------
(* TaxCalculator component and the shared tax context *)

NullResult == [null |-> TRUE]

\* tax-context.tsx DEFAULT_STATE
DEFAULT_STATE ==
  [income               |-> 0,
   filingStatus         |-> "single",
   contribution401k     |-> 0,
   contributionHSA      |-> 0,
   useStandardDeduction |-> TRUE,
   result               |-> NullResult]

\* update(partial): setState((prev) => ({ ...prev, ...partial }))
TaxContextUpdate(prev, partial) ==
  [k \in DOMAIN prev |-> IF k \in DOMAIN partial THEN partial[k] ELSE prev[k]]

\* The initial component state: income is initialIncome || 0.
InitialCalculatorState(props) ==
  [income               |-> props.income,
   filingStatus         |-> IF Defined(props, "defaultFilingStatus")
                            THEN props.defaultFilingStatus ELSE "single",
   contribution401k     |-> 0,
   contributionHSA      |-> 0,
   useStandardDeduction |-> TRUE,
   result               |-> NullResult]

\* The deductions the compute effect builds from the component state.
CalculatorDeductions(state) ==
  (IF state.contribution401k > 0
   THEN << [label |-> <<"4","0","1","(","k",")">>, amount |-> state.contribution401k] >>
   ELSE <<>>)
  \o (IF state.contributionHSA > 0
      THEN << [label |-> <<"H","S","A">>, amount |-> state.contributionHSA] >>
      ELSE <<>>)
  \o (IF state.useStandardDeduction
      THEN << [label  |-> <<"S","t","a","n","d","a","r","d"," ",
                            "D","e","d","u","c","t","i","o","n">>,
               amount |-> STANDARD_DEDUCTIONS[state.filingStatus]] >>
      ELSE <<>>)

CalculatorRequest(state) ==
  [grossIncome  |-> state.income,
   filingStatus |-> state.filingStatus,
   deductions   |-> CalculatorDeductions(state)]

\* The compute effect run for the state of a render: nothing when the income
\* is 0, else one more calculation whose continuation holds that state.
ComputeEffect(state, pending) ==
  IF state.income <= 0 THEN pending
  ELSE Append(pending, [state  |-> state,
                        result |-> calculateFederalTax(CalculatorRequest(state))])

\* The continuation of a calculation: the result goes into the component
\* state, and the state the effect ran for goes into the shared context.
SharedAfter(ctx, p) ==
  TaxContextUpdate(ctx,
    [income               |-> p.state.income,
     filingStatus         |-> p.state.filingStatus,
     contribution401k     |-> p.state.contribution401k,
     contributionHSA      |-> p.state.contributionHSA,
     useStandardDeduction |-> p.state.useStandardDeduction,
     result               |-> p.result])

----------------------------------------------------------------------------
(* Dashboard bridge *)

\* The registered widgets, by name.
WIDGET_REGISTRY ==
  ("MetricCard" :> [description |-> "KPI card showing a single metric with value, trend, and sparkline."]) @@
  ("AreaChart" :> [description |-> "Line/area chart for time series trends."]) @@
  ("DonutChart" :> [description |-> "Donut chart for proportional breakdowns."]) @@
  ("BarChart" :> [description |-> "Horizontal bar chart for rankings."]) @@
  ("FunnelChart" :> [description |-> "Conversion funnel with drop-off rates."]) @@
  ("DataTable" :> [description |-> "Sortable data table for tabular detail."])

\* Object.keys(WIDGET_REGISTRY).join(", ")
ValidNames == "MetricCard, AreaChart, DonutChart, BarChart, FunnelChart, DataTable"

\* WIDGET_REGISTRY[componentName]: the registry's own entry, else the
\* inherited member of that name (an object without description or
\* component), else undefined.
LookupWidget(componentName) ==
  IF componentName \in DOMAIN WIDGET_REGISTRY
    THEN [kind |-> "entry", description |-> WIDGET_REGISTRY[componentName].description]
  ELSE IF componentName \in ObjectPrototypeKeys
    THEN [kind |-> "inherited"]
  ELSE [kind |-> "undefined"]

NotInitialized == [success |-> FALSE, error |-> <<"Dashboard bridge not initialized">>]

\* let _addComponent = null; let _removeComponent = null
EmptyBridge == [addComponent |-> "null", removeComponent |-> "null"]

setBridgeCallbacks(addFn, removeFn) ==
  [addComponent |-> addFn, removeComponent |-> removeFn]

\* The interactable context behind the callbacks: addInteractableComponent
\* stores the component and returns its new id.
addInteractableComponent(board, component) ==
  [components |-> Append(board.components, [id |-> board.nextId] @@ component),
   nextId     |-> board.nextId + 1]

removeInteractableComponent(board, id) ==
  [board EXCEPT !.components = SelectSeq(board.components, LAMBDA c : c.id # id)]

\* addDashboardWidget: the value returned, the callbacks it invoked and the
\* dashboard afterwards.
addDashboardWidget(b, board, componentName, props) ==
  IF b.addComponent = "null"
    THEN [result |-> NotInitialized, calls |-> <<>>, board |-> board]
  ELSE LET entry == LookupWidget(componentName)
       IN  IF entry.kind = "undefined"
           THEN [result |-> [success |-> FALSE,
                             error   |-> <<"Unknown component: ", componentName,
                                           ". Valid: ", ValidNames>>],
                 calls  |-> <<>>,
                 board  |-> board]
           ELSE LET component ==
                      (IF entry.kind = "entry"
                       THEN [description |-> entry.description] ELSE <<>>)
                      @@ [name |-> componentName, props |-> props]
                IN  [result |-> [success |-> TRUE, componentId |-> board.nextId],
                     calls  |-> << [fn |-> b.addComponent, component |-> component] >>,
                     board  |-> addInteractableComponent(board, component)]

removeDashboardWidget(b, board, componentId) ==
  IF b.removeComponent = "null"
    THEN [result |-> NotInitialized, calls |-> <<>>, board |-> board]
  ELSE [result |-> [success |-> TRUE],
        calls  |-> << [fn |-> b.removeComponent, id |-> componentId] >>,
        board  |-> removeInteractableComponent(board, componentId)]

----------------------------------------------------------------------------
(* Inputs *)

MaxDeductions == 2

EdgeSpread == 1

Ch401Paren == <<"4","0","1","(","k",")">>

ChRoth401K == <<"R","o","t","h"," ","4","0","1","K">>

ChHSA == <<"H","S","A">>

ChStandardDeduction ==
  <<"S","t","a","n","d","a","r","d"," ","D","e","d","u","c","t","i","o","n">>

ChMortgage == <<"M","o","r","t","g","a","g","e">>

\* Deductions a caller may supply.  "401(k)", "HSA" and "Standard Deduction"
\* are the labels the TaxCalculator component builds.
DeductionPool ==
  << [label |-> Ch401Paren,          amount |-> Dollars(20000)],
     [label |-> ChHSA,               amount |-> Dollars(3000)],
     [label |-> ChStandardDeduction, amount |-> Dollars(14600)],
     [label |-> ChRoth401K,          amount |-> Dollars(23000)],
     [label |-> ChMortgage,          amount |-> 1234567] >>

RECURSIVE PickFrom(_, _, _)
PickFrom(pool, i, S) ==
  IF i > Len(pool) THEN <<>>
  ELSE (IF i \in S THEN <<pool[i]>> ELSE <<>>) \o PickFrom(pool, i + 1, S)

DeductionLists ==
  { PickFrom(DeductionPool, 1, S) :
      S \in { T \in SUBSET (1..Len(DeductionPool)) : Cardinality(T) <= MaxDeductions } }

SeqRange(s) == { s[i] : i \in 1..Len(s) }

\* Amounts at which the federal computation changes regime.
FederalEdges ==
  UNION { { b.min : b \in SeqRange(BRACKETS[fs]) } : fs \in FilingStatuses }
    \cup { SS_WAGE_BASE }
    \cup { MEDICARE_SURTAX_THRESHOLD[fs] : fs \in FilingStatuses }

\* The code computes in binary floating point and the model in exact
\* decimals.  The two agree except where a value to be rounded lies exactly
\* on a half, which the double may have moved to either side; requests with
\* such a tie are left out of the inputs.
FICAOnHalfCent(g) ==
  \E fs \in FilingStatuses :
    LET surtaxThreshold == MEDICARE_SURTAX_THRESHOLD[fs]
        exact == AddExact(AddExact(MulRate(Min(g, SS_WAGE_BASE), SS_RATE),
                                   MulRate(g, MEDICARE_RATE)),
                          IF g > surtaxThreshold
                          THEN MulRate(g - surtaxThreshold, MEDICARE_SURTAX_RATE)
                          ELSE ExactZero)
    IN  2 * exact.f = RateScale

GrossIncomes ==
  { g \in { e + d : e \in FederalEdges, d \in (-EdgeSpread)..EdgeSpread }
            \cup { Dollars(60000), Dollars(10004), 1160414, 495,
                   Dollars(1000000), -Dollars(1000) } :
      ~FICAOnHalfCent(g) }

FederalRequests ==
  { [fn |-> "calculateFederalTax",
     input |-> [grossIncome |-> g, filingStatus |-> fs, deductions |-> ds]] :
      g \in GrossIncomes, fs \in FilingStatuses, ds \in DeductionLists }

StateKeys == DOMAIN STATE_TAX_DATA

\* The ways a caller may write a two-letter abbreviation.
CaseVariants(k) ==
  { k, toLowerCase(k), <<k[1], ToLowerChar(k[2])>> }

UnknownAbbreviations ==
  { <<"Z","Z">>, <<"z","z">>, <<"P","R">>, <<"T">>, <<"T","X","X">>, <<" ","T","X">> }

\* Gross incomes around the points where a state's computation changes.
StateIncomes(k) ==
  LET info == STATE_TAX_DATA[k]
      sd   == IF "standardDeduction" \in DOMAIN info THEN info.standardDeduction ELSE 0
      mins == IF "brackets" \in DOMAIN info
              THEN { b.min : b \in SeqRange(info.brackets) } ELSE {0}
  IN  { sd + m + d : m \in mins, d \in (-EdgeSpread)..EdgeSpread }
        \cup { 0, Dollars(100000), 3333333, -Dollars(1000) }
        \cup { Dollars(18420), Dollars(72774), Dollars(100139) }

\* The state's effective rate for this income is a rounding tie.
StateRateOnHalf(k, g) ==
  LET out == calculateStateTax([stateAbbreviation |-> k, grossIncome |-> g,
                                filingStatus |-> "single"])
  IN  g > 0 /\ RatioOnHalf(out.value.stateTax, g)

StateRequests ==
  { [fn |-> "calculateStateTax",
     input |-> [stateAbbreviation |-> a, grossIncome |-> g, filingStatus |-> fs]] :
      a \in UnknownAbbreviations, g \in {0, Dollars(100000)}, fs \in FilingStatuses }
  \cup
  UNION { { [fn |-> "calculateStateTax",
             input |-> [stateAbbreviation |-> a, grossIncome |-> g, filingStatus |-> fs]] :
              a \in CaseVariants(k),
              g \in { h \in StateIncomes(k) : ~StateRateOnHalf(k, h) },
              fs \in FilingStatuses } :
          k \in StateKeys }

\* Answers to the Deduction Finder's questions; an amount left out is undefined.
StudentLoanAnswers ==
  { [hasStudentLoans |-> FALSE],
    [hasStudentLoans |-> TRUE],
    [hasStudentLoans |-> TRUE, loanBalance |-> Dollars(20000)],
    [hasStudentLoans |-> TRUE, loanBalance |-> Dollars(80000)] }

HSAAnswers ==
  { [hasHSA |-> FALSE],
    [hasHSA |-> TRUE, currentHSAContribution |-> Dollars(3000)],
    [hasHSA |-> TRUE, currentHSAContribution |-> Dollars(4150)] }

IRAAnswers ==
  { [wantsIRA |-> FALSE],
    [wantsIRA |-> TRUE],
    [wantsIRA |-> TRUE, currentIRAContribution |-> Dollars(7000)] }

CharityAnswers ==
  { [donatesCharity |-> FALSE],
    [donatesCharity |-> TRUE, charityAmount |-> Dollars(3000)],
    [donatesCharity |-> TRUE, charityAmount |-> Dollars(30000)] }

DependentAnswers ==
  { [hasDependents |-> FALSE],
    [hasDependents |-> TRUE],
    [hasDependents |-> TRUE, dependentCount |-> 1],
    [hasDependents |-> TRUE, dependentCount |-> 3] }

FinderIncomes ==
  { Dollars(10000), Dollars(60000), Dollars(88000), Dollars(150000), Dollars(250000) }

Ch401k == <<"4","0","1","k">>

\* The current deductions of a Deduction Finder call: one of the caller's
\* deductions, the component's "401(k)" entry at the annual cap, or a
\* "401k" entry below it.
FinderDeductionLists ==
  { ds \in DeductionLists : Len(ds) < MaxDeductions }
    \cup { << [label |-> Ch401Paren, amount |-> LIMIT_401K] >>,
           << [label |-> Ch401k,     amount |-> Dollars(10000)] >> }

\* How the caller came by the current federal tax it reports: the engine's
\* figure for the current deductions (as the DeductionFinder component passes
\* it), nothing yet (the component's initial 0), or a figure with cents.
TaxReports == {"engine", "zero", "cents"}

\* The federal tax the caller reports: the engine's figure for the current
\* deductions, 0, or that figure with cents added.
CurrentFederalTax(g, fs, ds, report) ==
  LET engine == calculateFederalTax([grossIncome |-> g, filingStatus |-> fs,
                                     deductions |-> ds]).federalTax
  IN  CASE report = "engine" -> engine
        [] report = "zero"   -> 0
        [] report = "cents"  -> engine + 37

FinderRequest(g, fs, ds, report, a) ==
  [fn |-> "findDeductions",
   input |-> [grossIncome |-> g, filingStatus |-> fs,
              currentDeductions |-> ds,
              currentFederalTax |-> CurrentFederalTax(g, fs, ds, report)]
             @@ a[1] @@ a[2] @@ a[3] @@ a[4] @@ a[5]]

FinderAnswers ==
  StudentLoanAnswers \X HSAAnswers \X IRAAnswers \X CharityAnswers \X DependentAnswers

\* Words of a question put to the Tax-Rule Lookup: keywords in several
\* spellings, words that merely contain one, and a word that matches nothing.
SearchWords ==
  { <<"H","S","A">>,
    <<"R","o","t","h">>,
    <<"4","0","1","(","k",")">>,
    <<"4","0","1","K">>,
    <<"B","r","a","c","k","e","t">>,
    <<"m","o","d","e","r","a","t","e">>,
    <<"F","I","C","A">>,
    <<"S","t","a","n","d","a","r","d"," ","D","e","d","u","c","t","i","o","n">>,
    <<"c","a","p","i","t","a","l"," ","g","a","i","n">>,
    <<"C","T","C">>,
    <<"E","I","T","C">>,
    <<"e","s","t","a","t","e">>,
    <<"W","h","e","n">>,
    <<"A","M","T">>,
    <<"h","e","l","l","o">>,
    <<"M","e","d","i","c","a","r","e">> }

SearchQueries ==
  SearchWords \cup { <<>> }
    \cup { a \o <<" ">> \o b : a \in SearchWords, b \in SearchWords }

SearchRequests ==
  { [fn |-> "searchTaxRules", input |-> [query |-> q]] : q \in SearchQueries }

\* Regions the geolocation service may report: the states of the table,
\* regions outside it, and names every JavaScript object answers to.
Regions ==
  DOMAIN STATE_NAME_TO_ABBR
    \cup { "Ontario", "England", "Puerto Rico", "california", "CA", "",
           "constructor", "toString" }

Cities == { "Springfield", "" }

\* The JSON object of a reply; region and city may each be missing or null.
GeoData ==
  { [region |-> r, city |-> c] : r \in Regions, c \in Cities }
    \cup { [region |-> r] : r \in Regions }
    \cup { [city |-> c] : c \in Cities }

FetchOutcomes ==
  { [kind |-> "rejected", message |-> "Failed to fetch"] }
    \cup { [kind |-> "response", ok |-> FALSE, status |-> st] :
             st \in { "404", "429", "500" } }
    \cup { [kind |-> "response", ok |-> TRUE, status |-> "200", body |-> "invalid",
            jsonError |-> "Unexpected token < in JSON at position 0"],
           [kind |-> "response", ok |-> TRUE, status |-> "200", body |-> "null",
            jsonError |-> "Cannot read properties of null (reading 'region')"] }
    \cup { [kind |-> "response", ok |-> TRUE, status |-> "200", body |-> "object",
            data |-> d] : d \in GeoData }

LocationRequests ==
  { [fn |-> "getUserLocation", fetch |-> f] : f \in FetchOutcomes }

\* What the DeductionFinder component renders from: its props, the shared
\* TaxCalculator context and its own state.
FinderProps ==
  { [title |-> "Find deductions"] }
    \cup { [title |-> "Find deductions", grossIncome |-> g] :
             g \in { 0, Dollars(50000) } }
    \cup { [title |-> "Find deductions", filingStatus |-> fs] :
             fs \in { "married_joint", "head_of_household" } }
    \cup { [title |-> "Find deductions", grossIncome |-> g, filingStatus |-> fs] :
             g \in { 0, Dollars(50000) },
             fs \in { "married_joint", "head_of_household" } }

TaxContexts ==
  { [income |-> i, filingStatus |-> fs] :
      i \in { 0, Dollars(80000) }, fs \in FilingStatuses }

FinderStates ==
  { [answers |-> "none"] }
    \cup { [answers |-> "none", incomeOverride |-> o] : o \in { 0, Dollars(70000) } }

ComponentRequests ==
  { [fn |-> "DeductionFinder", props |-> p, taxCtx |-> c, state |-> st] :
      p \in FinderProps, c \in TaxContexts, st \in FinderStates }

\* The TaxCalculator as the assistant renders it, and what its controls
\* can be set to.
SliderIncomes == { 0, Dollars(60000) }

CalculatorProps ==
  { [title |-> "Tax Calculator", income |-> i] : i \in SliderIncomes }
    \cup { [title |-> "Tax Calculator", income |-> Dollars(60000),
            defaultFilingStatus |-> "married_joint"] }

CalculatorFilings == { "single", "married_joint" }

Slider401k == { 0, LIMIT_401K }

SliderHSA == { 0, HSA_LIMIT_SELF }

\* Calculations started and not yet resolved, at most.
MaxPending == 2

NotMounted == [mounted |-> FALSE]

NoRequest == [fn |-> "none"]

NoResponse == [status |-> "pending"]

\* Names a caller may ask the bridge for; the last four are not registered.
ComponentNames ==
  DOMAIN WIDGET_REGISTRY \cup { "PieChart", "metriccard", "", "constructor" }

\* The pairs of callbacks successive renders of DashboardBridge hand over.
CallbackGenerations == { "render1", "render2" }

\* Widgets ever added to the dashboard, at most.
MaxWidgets == 2

EmptyDashboard == [components |-> <<>>, nextId |-> 1]

\* A state field no prop has given a value.
Unset == "undefined"

NoData == [null |-> TRUE]

WidgetKinds == { "MetricCard", "DonutChart", "DataTable" }

\* The state fields of a widget that a setter changes and its data request
\* depends on (sortBy, sortDirection, limit and columns have no setter).
FilterKeys(kind) ==
  CASE kind = "MetricCard" -> { "metric", "dateRange" }
    [] kind = "DonutChart" -> { "groupBy", "metric", "dateRange" }
    [] kind = "DataTable"  -> { "entity", "dateRange" }

FilterValues(key) ==
  CASE key = "metric"    -> { "mrr", "churnRate" }
    [] key = "groupBy"   -> { "plan", "region" }
    [] key = "entity"    -> { "users", "events" }
    [] key = "dateRange" -> { "7d", "30d" }

\* const canFetch = Boolean(metric && dateRange), Boolean(groupBy && dateRange),
\* Boolean(entity && dateRange)
canFetch(kind, filters) ==
  /\ filters["dateRange"] # Unset
  /\ CASE kind = "MetricCard" -> filters["metric"] # Unset
       [] kind = "DonutChart" -> filters["groupBy"] # Unset
       [] kind = "DataTable"  -> filters["entity"] # Unset

DataFunction(kind) ==
  CASE kind = "MetricCard" -> "getMetricsSummary"
    [] kind = "DonutChart" -> "getBreakdown"
    [] kind = "DataTable"  -> "getTableRows"

\* The object a data request resolves to: the data of the function for the
\* parameters of request id.
ResponseOf(kind, r) == [id |-> r.id, fn |-> DataFunction(kind), params |-> r.params]

\* Mutant: the cleanup leaves the flag as it is.
RunCleanup_NoCancel(w, pending) == pending

\* return () => { cancelled = true; }: the cleanup the last effect run
\* registered sets the flag of that run's closure; a run that returned early
\* registered none.
RunCleanup(w, pending) ==
  [i \in 1..Len(pending) |->
     IF pending[i].id = w.cleanup
     THEN [pending[i] EXCEPT !.cancelled = TRUE]
     ELSE pending[i]]

\* The body of the fetch effect, run after a render in which a dependency
\* changed: if (!canFetch) return; let cancelled = false; get...(...).then(...)
RunEffect(w, pending) ==
  IF ~canFetch(w.kind, w.filters)
  THEN [widget |-> [w EXCEPT !.cleanup = 0], fetches |-> pending]
  ELSE [widget  |-> [w EXCEPT !.cleanup = w.issued + 1, !.issued = w.issued + 1],
        fetches |-> Append(pending, [id        |-> w.issued + 1,
                                     params    |-> w.filters,
                                     cancelled |-> FALSE])]

\* (d) => { if (!cancelled) setData(d); }
ResolveFetch(w, r) ==
  IF ~r.cancelled THEN [w EXCEPT !.data = ResponseOf(w.kind, r)] ELSE w

\* Data requests a widget issues, at most.
MaxFetches == 3

\* The props a widget is first rendered with: any filter may be missing.
InitialFilters(kind) ==
  { f \in [FilterKeys(kind) ->
             UNION { FilterValues(k) : k \in FilterKeys(kind) } \cup { Unset }] :
      \A k \in FilterKeys(kind) : f[k] \in FilterValues(k) \cup { Unset } }

WidgetAtRest ==
  /\ widget = NotMounted
  /\ fetches = <<>>

\* A widget after its first render and the first run of its fetch effect.
WidgetMounted ==
  \E kind \in WidgetKinds :
    \E props \in InitialFilters(kind) :
      LET first == RunEffect([kind |-> kind, mounted |-> TRUE, filters |-> props,
                              data |-> NoData, cleanup |-> 0, issued |-> 0], <<>>)
      IN  /\ widget = first.widget
          /\ fetches = first.fetches

CalculatorAtRest ==
  /\ calculator = NotMounted
  /\ taxContext = DEFAULT_STATE
  /\ pendingResults = <<>>

\* The module as loaded: no callbacks yet, nothing on the dashboard.
BridgeAtRest ==
  /\ bridge = EmptyBridge
  /\ dashboard = EmptyDashboard
  /\ invoked = <<>>

\* No component is on the page.
ComponentsAtRest == CalculatorAtRest /\ BridgeAtRest /\ WidgetAtRest

\* No service call is under way.
ServiceIdle ==
  /\ pc = "idle"
  /\ request = NoRequest
  /\ response = NoResponse

\* The TaxCalculator after its first render and effects.
CalculatorMounted ==
  \E props \in CalculatorProps :
    /\ calculator = [mounted |-> TRUE, props |-> props,
                     state |-> InitialCalculatorState(props)]
    /\ taxContext = DEFAULT_STATE
    /\ pendingResults = ComputeEffect(InitialCalculatorState(props), <<>>)

----------------------------------------------------------------------------
(* Behaviour: a caller issues one request; the service computes and returns *)

FinderRequestIssued ==
  \/ \E g \in FinderIncomes, fs \in FilingStatuses, ds \in FinderDeductionLists,
        a \in FinderAnswers :
       request = FinderRequest(g, fs, ds, "engine", a)
  \/ \E ds \in FinderDeductionLists, report \in TaxReports, a \in FinderAnswers :
       request = FinderRequest(Dollars(60000), "single", ds, report, a)

Init ==
  \/ /\ pc = "called"
     /\ \/ request \in FederalRequests
        \/ request \in StateRequests
        \/ FinderRequestIssued
        \/ request \in SearchRequests
        \/ request \in LocationRequests
        \/ request \in ComponentRequests
     /\ response = NoResponse
     /\ ComponentsAtRest
  \/ /\ ServiceIdle
     /\ CalculatorMounted
     /\ BridgeAtRest
     /\ WidgetAtRest
  \/ /\ ServiceIdle
     /\ CalculatorAtRest
     /\ BridgeAtRest
     /\ WidgetAtRest
  \/ /\ ServiceIdle
     /\ CalculatorAtRest
     /\ BridgeAtRest
     /\ WidgetMounted

CalculateFederalTax ==
  /\ pc = "called"
  /\ request.fn = "calculateFederalTax"
  /\ response' = [status |-> "ok", value |-> calculateFederalTax(request.input)]
  /\ pc' = "returned"
  /\ UNCHANGED request
  /\ UNCHANGED components

CalculateStateTax ==
  /\ pc = "called"
  /\ request.fn = "calculateStateTax"
  /\ response' = calculateStateTax(request.input)
  /\ pc' = "returned"
  /\ UNCHANGED request
  /\ UNCHANGED components

FindDeductions ==
  /\ pc = "called"
  /\ request.fn = "findDeductions"
  /\ response' = [status |-> "ok", value |-> findDeductions(request.input)]
  /\ pc' = "returned"
  /\ request' = [request EXCEPT
                   !.input.currentDeductions = CallerDeductionsAfter(request.input)]
  /\ UNCHANGED components

SearchTaxRules ==
  /\ pc = "called"
  /\ request.fn = "searchTaxRules"
  /\ response' = [status |-> "ok", value |-> searchTaxRules(request.input)]
  /\ pc' = "returned"
  /\ UNCHANGED request
  /\ UNCHANGED components

GetUserLocation ==
  /\ pc = "called"
  /\ request.fn = "getUserLocation"
  /\ response' = getUserLocation(request.fetch)
  /\ pc' = "returned"
  /\ UNCHANGED request
  /\ UNCHANGED components

RenderDeductionFinder ==
  /\ pc = "called"
  /\ request.fn = "DeductionFinder"
  /\ response' = [status |-> "ok",
                  value  |-> [resolvedIncome |-> resolvedIncome(request.state, request.taxCtx,
                                                                request.props),
                              resolvedFiling |-> resolvedFiling(request.taxCtx, request.props)]]
  /\ pc' = "returned"
  /\ UNCHANGED request
  /\ UNCHANGED components

\* updateField(key, value) and the compute effect its re-render runs.
UpdateField(key, value) ==
  /\ calculator.state[key] # value
  /\ LET state == [calculator.state EXCEPT ![key] = value]
     IN  /\ calculator' = [calculator EXCEPT !.state = state]
         /\ pendingResults' = ComputeEffect(state, pendingResults)

ChangeIncome ==
  /\ calculator.mounted
  /\ Len(pendingResults) < MaxPending
  /\ \E v \in SliderIncomes : UpdateField("income", v)
  /\ UNCHANGED <<taxContext, service, bridgeVars, widgetVars>>

ChangeFilingStatus ==
  /\ calculator.mounted
  /\ Len(pendingResults) < MaxPending
  /\ \E v \in CalculatorFilings : UpdateField("filingStatus", v)
  /\ UNCHANGED <<taxContext, service, bridgeVars, widgetVars>>

Change401k ==
  /\ calculator.mounted
  /\ Len(pendingResults) < MaxPending
  /\ \E v \in Slider401k : UpdateField("contribution401k", v)
  /\ UNCHANGED <<taxContext, service, bridgeVars, widgetVars>>

ChangeHSA ==
  /\ calculator.mounted
  /\ Len(pendingResults) < MaxPending
  /\ \E v \in SliderHSA : UpdateField("contributionHSA", v)
  /\ UNCHANGED <<taxContext, service, bridgeVars, widgetVars>>

ToggleStandardDeduction ==
  /\ calculator.mounted
  /\ Len(pendingResults) < MaxPending
  /\ UpdateField("useStandardDeduction", ~calculator.state.useStandardDeduction)
  /\ UNCHANGED <<taxContext, service, bridgeVars, widgetVars>>

\* The income prop arrives while the assistant streams: it is copied into a
\* state whose income is still 0, and the compute effect follows.
StreamIncomeProp ==
  /\ calculator.mounted
  /\ Len(pendingResults) < MaxPending
  /\ \E v \in SliderIncomes :
       /\ v # calculator.props.income
       /\ LET props == [calculator.props EXCEPT !.income = v]
              state == IF v # 0 /\ calculator.state.income = 0
                       THEN [calculator.state EXCEPT !.income = v]
                       ELSE calculator.state
          IN  /\ calculator' = [calculator EXCEPT !.props = props, !.state = state]
              /\ pendingResults' = IF state = calculator.state THEN pendingResults
                                   ELSE ComputeEffect(state, pendingResults)
  /\ UNCHANGED <<taxContext, service, bridgeVars, widgetVars>>

\* A calculation resolves; calculations resolve in the order they started.
ResolveCalculation ==
  /\ calculator.mounted
  /\ pendingResults # <<>>
  /\ calculator' = [calculator EXCEPT !.state.result = Head(pendingResults).result]
  /\ taxContext' = SharedAfter(taxContext, Head(pendingResults))
  /\ pendingResults' = Tail(pendingResults)
  /\ UNCHANGED <<service, bridgeVars, widgetVars>>

\* DashboardBridge's effect hands the current callbacks to the bridge; no
\* tool call is under way.
SetBridgeCallbacks ==
  /\ calculator = NotMounted
  /\ pc \in { "idle", "returned" }
  /\ \E g \in CallbackGenerations :
       /\ g # bridge.addComponent
       /\ bridge' = setBridgeCallbacks(g, g)
  /\ pc' = "idle"
  /\ request' = NoRequest
  /\ response' = NoResponse
  /\ invoked' = <<>>
  /\ UNCHANGED <<dashboard, calculatorVars, widgetVars>>

AddDashboardWidget ==
  /\ calculator = NotMounted
  /\ pc \in { "idle", "returned" }
  /\ dashboard.nextId <= MaxWidgets
  /\ \E componentName \in ComponentNames :
       LET props == [title |-> "Revenue"]
           out   == addDashboardWidget(bridge, dashboard, componentName, props)
       IN  /\ request' = [fn |-> "addDashboardWidget",
                          componentName |-> componentName, props |-> props]
           /\ response' = out.result
           /\ invoked' = out.calls
           /\ dashboard' = out.board
  /\ pc' = "returned"
  /\ UNCHANGED <<bridge, calculatorVars, widgetVars>>

RemoveDashboardWidget ==
  /\ calculator = NotMounted
  /\ pc \in { "idle", "returned" }
  /\ \E componentId \in 1..MaxWidgets :
       LET out == removeDashboardWidget(bridge, dashboard, componentId)
       IN  /\ request' = [fn |-> "removeDashboardWidget", componentId |-> componentId]
           /\ response' = out.result
           /\ invoked' = out.calls
           /\ dashboard' = out.board
  /\ pc' = "returned"
  /\ UNCHANGED <<bridge, calculatorVars, widgetVars>>

BridgeNext ==
  \/ SetBridgeCallbacks
  \/ AddDashboardWidget
  \/ RemoveDashboardWidget

CalculatorNext ==
  \/ ChangeIncome
  \/ ChangeFilingStatus
  \/ Change401k
  \/ ChangeHSA
  \/ ToggleStandardDeduction
  \/ StreamIncomeProp
  \/ ResolveCalculation

\* setMetric, setDateRange, setGroupBy, setEntity with a new value: the widget
\* renders again, the cleanup of the previous effect runs, then the effect.
ChangeFilter ==
  /\ widget.mounted
  /\ widget.issued < MaxFetches
  /\ \E key \in FilterKeys(widget.kind) :
       \E v \in FilterValues(key) :
         /\ v # widget.filters[key]
         /\ LET next == RunEffect([widget EXCEPT !.filters[key] = v],
                                  RunCleanup(widget, fetches))
            IN  /\ widget' = next.widget
                /\ fetches' = next.fetches
  /\ UNCHANGED <<service, calculatorVars, bridgeVars>>

\* One of the promises in flight resolves and its continuation runs.
CompleteFetch ==
  /\ fetches # <<>>
  /\ \E i \in 1..Len(fetches) :
       /\ widget' = ResolveFetch(widget, fetches[i])
       /\ fetches' = SubSeq(fetches, 1, i - 1) \o SubSeq(fetches, i + 1, Len(fetches))
  /\ UNCHANGED <<service, calculatorVars, bridgeVars>>

\* The widget leaves the page: the cleanup of its effect runs.
UnmountWidget ==
  /\ widget.mounted
  /\ widget' = [widget EXCEPT !.mounted = FALSE, !.cleanup = 0]
  /\ fetches' = RunCleanup(widget, fetches)
  /\ UNCHANGED <<service, calculatorVars, bridgeVars>>

WidgetNext ==
  \/ ChangeFilter
  \/ CompleteFetch
  \/ UnmountWidget

Next ==
  \/ CalculateFederalTax
  \/ CalculateStateTax
  \/ FindDeductions
  \/ SearchTaxRules
  \/ GetUserLocation
  \/ RenderDeductionFinder
  \/ CalculatorNext
  \/ BridgeNext
  \/ WidgetNext

Spec == Init /\ [][Next]_vars

\* One specification per service: the callers of that service only.
FederalInit ==
  pc = "called" /\ request \in FederalRequests /\ response = NoResponse /\ ComponentsAtRest

FederalSpec == FederalInit /\ [][CalculateFederalTax]_vars

StateInit ==
  pc = "called" /\ request \in StateRequests /\ response = NoResponse /\ ComponentsAtRest

StateSpec == StateInit /\ [][CalculateStateTax]_vars

FinderInit ==
  pc = "called" /\ FinderRequestIssued /\ response = NoResponse /\ ComponentsAtRest

FinderSpec == FinderInit /\ [][FindDeductions]_vars

SearchInit ==
  pc = "called" /\ request \in SearchRequests /\ response = NoResponse /\ ComponentsAtRest

SearchSpec == SearchInit /\ [][SearchTaxRules]_vars

LocationInit ==
  pc = "called" /\ request \in LocationRequests /\ response = NoResponse /\ ComponentsAtRest

LocationSpec == LocationInit /\ [][GetUserLocation]_vars

ComponentInit ==
  pc = "called" /\ request \in ComponentRequests /\ response = NoResponse /\ ComponentsAtRest

ComponentSpec == ComponentInit /\ [][RenderDeductionFinder]_vars

\* The TaxCalculator on the page, the user moving its controls.
CalculatorInit == ServiceIdle /\ CalculatorMounted /\ BridgeAtRest /\ WidgetAtRest

CalculatorSpec == CalculatorInit /\ [][CalculatorNext]_vars

\* The dashboard bridge and its callers.
BridgeInit == ServiceIdle /\ CalculatorAtRest /\ BridgeAtRest /\ WidgetAtRest

BridgeSpec == BridgeInit /\ [][BridgeNext]_vars

\* A data widget on the dashboard, its filters changing while requests are
\* in flight.
WidgetInit == ServiceIdle /\ CalculatorAtRest /\ BridgeAtRest /\ WidgetMounted

WidgetSpec == WidgetInit /\ [][WidgetNext]_vars

\* The bracket walks of both engines.
WalkInit ==
  /\ pc = "called"
  /\ request \in FederalRequests \cup StateRequests
  /\ response = NoResponse
  /\ ComponentsAtRest

WalkNext ==
  \/ CalculateFederalTax
  \/ CalculateStateTax

WalkSpec == WalkInit /\ [][WalkNext]_vars

FederalReturned == pc = "returned" /\ request.fn = "calculateFederalTax"

StateReturned == pc = "returned" /\ request.fn = "calculateStateTax"

FinderReturned == pc = "returned" /\ request.fn = "findDeductions"

SearchReturned == pc = "returned" /\ request.fn = "searchTaxRules"

LocationReturned == pc = "returned" /\ request.fn = "getUserLocation"

ComponentRendered == pc = "returned" /\ request.fn = "DeductionFinder"

----------------------------------------------------------------------------
(* Federal Tax Engine: properties *)

FedIn == request.input

FedOut == response.value

RECURSIVE SumTaxable(_)
SumTaxable(b) ==
  IF b = <<>> THEN 0 ELSE b[1].taxableAmount + SumTaxable(Tail(b))

\* C1: in every result of calculateFederalTax the breakdown's taxableAmounts
\* add up to the taxable income, the first entry starts at 0 and every
\* entry starts where the previous one ends.
C1_BracketPartition ==
  FederalReturned =>
    LET b == FedOut.bracketBreakdown
    IN  /\ FedOut.taxableIncome >= 0
        /\ SumTaxable(b) = FedOut.taxableIncome
        /\ (b # <<>> => b[1].min = 0)
        /\ \A i \in 2..Len(b) : b[i].min = b[i - 1].max

\* A result whose income was split over at least three brackets and ends
\* strictly inside the last one.
C1_Witness ==
  /\ FederalReturned
  /\ Len(FedOut.bracketBreakdown) >= 3
  /\ LET b == FedOut.bracketBreakdown
     IN  /\ b[Len(b)].taxableAmount > 0
         /\ b[Len(b)].min + b[Len(b)].taxableAmount < b[Len(b)].max

\* The reference accumulation of the 2024 tables, written bracket by bracket
\* as rate x (part of the income lying between the bracket's bounds).
RefTable(fs) ==
  CASE fs = "single" ->
         << <<10, 0, 11600>>, <<12, 11600, 47150>>, <<22, 47150, 100525>>,
            <<24, 100525, 191950>>, <<32, 191950, 243725>>,
            <<35, 243725, 609350>>, <<37, 609350, NULL>> >>
    [] fs = "married_joint" ->
         << <<10, 0, 23200>>, <<12, 23200, 94300>>, <<22, 94300, 201050>>,
            <<24, 201050, 383900>>, <<32, 383900, 487450>>,
            <<35, 487450, 731200>>, <<37, 731200, NULL>> >>
    [] fs = "married_separate" ->
         << <<10, 0, 11600>>, <<12, 11600, 47150>>, <<22, 47150, 100525>>,
            <<24, 100525, 191950>>, <<32, 191950, 243725>>,
            <<35, 243725, 365600>>, <<37, 365600, NULL>> >>
    [] fs = "head_of_household" ->
         << <<10, 0, 16550>>, <<12, 16550, 63100>>, <<22, 63100, 100500>>,
            <<24, 100500, 191950>>, <<32, 191950, 243700>>,
            <<35, 243700, 609350>>, <<37, 609350, NULL>> >>

\* Part of the income ti (cents) that lies in [lo, hi) dollars.
PartIn(ti, lo, hi) ==
  IF hi = NULL THEN Max(0, ti - lo * 100)
  ELSE Max(0, Min(ti, hi * 100) - lo * 100)

RECURSIVE RefAccumulate(_, _, _)
RefAccumulate(t, i, ti) ==
  IF i > Len(t) THEN ExactZero
  ELSE AddExact(MulRate(PartIn(ti, t[i][2], t[i][3]), t[i][1] * 1000),
                RefAccumulate(t, i + 1, ti))

RefFederalExact(ti, fs) == RefAccumulate(RefTable(fs), 1, ti)

\* The known-value scenario of the specification.
KnownValueRequest ==
  /\ FedIn.grossIncome = 6000000
  /\ FedIn.filingStatus = "single"
  /\ FedIn.deductions = <<>>

\* C2 as stated: federalTax is the reference accumulation rounded to whole
\* dollars, and the 60,000 single filer gets 60,000 / 8253 / 4590.
C2_Original ==
  FederalReturned =>
    /\ FedOut.federalTax =
         MathRoundExact(RefFederalExact(FedOut.taxableIncome, FedIn.filingStatus))
    /\ (KnownValueRequest =>
          /\ FedOut.taxableIncome = 6000000
          /\ FedOut.federalTax = 825300
          /\ FedOut.ficaTax = 459000)

\* C2 amended: federalTax is the reference accumulation rounded to cents and
\* then to whole dollars; this is the reference rounded to whole dollars
\* whenever the taxable income is a whole number of dollars, and never more
\* than one dollar above it; the known-value scenario holds.
C2_FederalTaxIsReference ==
  FederalReturned =>
    LET ref == RefFederalExact(FedOut.taxableIncome, FedIn.filingStatus)
    IN  /\ FedOut.federalTax = MathRound(RoundToCents(ref))
        /\ (FedOut.taxableIncome % 100 = 0 => FedOut.federalTax = MathRoundExact(ref))
        /\ FedOut.federalTax - MathRoundExact(ref) \in {0, 100}
        /\ (KnownValueRequest =>
              /\ FedOut.taxableIncome = 6000000
              /\ FedOut.federalTax = 825300
              /\ FedOut.ficaTax = 459000)

\* A result for a taxable income with cents on which the two roundings differ.
C2_Witness ==
  /\ FederalReturned
  /\ FedOut.taxableIncome % 100 # 0
  /\ Len(FedOut.bracketBreakdown) >= 2
  /\ FedOut.federalTax #
       MathRoundExact(RefFederalExact(FedOut.taxableIncome, FedIn.filingStatus))

\* The FICA formula with the figures of the specification.
RefThreshold(fs) ==
  CASE fs = "single" -> 20000000
    [] fs = "married_joint" -> 25000000
    [] fs = "married_separate" -> 12500000
    [] fs = "head_of_household" -> 20000000

RefFICA(g, fs) ==
  RoundToCents(
    AddExact(AddExact(MulRate(Min(g, 16860000), 6200), MulRate(g, 1450)),
             MulRate(Max(0, g - RefThreshold(fs)), 900)))

\* C3: computeFICA is min(gross, 168,600) x 6.2% + gross x 1.45% + 0.9% of
\* the excess over the filing-status threshold, rounded to cents; past the
\* wage base the Social Security part stays 10,453.20; the returned ficaTax
\* is that amount in whole dollars whatever the deduction list.
C3_FICAFormula ==
  FederalReturned =>
    LET g  == FedIn.grossIncome
        fs == FedIn.filingStatus
    IN  /\ computeFICA(g, fs) = RefFICA(g, fs)
        /\ FedOut.ficaTax = MathRound(RefFICA(g, fs))
        /\ (g >= 16860000 =>
              computeFICA(g, fs) =
                RoundToCents(AddExact([w |-> 1045320, f |-> 0],
                  AddExact(MulRate(g, 1450),
                           MulRate(Max(0, g - RefThreshold(fs)), 900))))) 

\* A result for a gross income above the wage base and the surtax threshold,
\* with deductions supplied.
C3_Witness ==
  /\ FederalReturned
  /\ FedIn.grossIncome > 16860000
  /\ FedIn.grossIncome > RefThreshold(FedIn.filingStatus)
  /\ FedIn.deductions # <<>>
  /\ FedOut.ficaTax > 0

\* C4 as stated: gross <= 0 or deductions above gross give a result with
\* taxableIncome 0, and gross <= 0 gives federalTax, ficaTax, effectiveRate
\* and marginalRate all 0.
C4_DegenerateInputsGiveZero ==
  FederalReturned =>
    /\ (FedIn.grossIncome <= 0 \/ SumAmounts(FedIn.deductions) > FedIn.grossIncome) =>
          (response.status = "ok" /\ FedOut.taxableIncome = 0)
    /\ FedIn.grossIncome <= 0 =>
          /\ FedOut.federalTax = 0
          /\ FedOut.ficaTax = 0
          /\ FedOut.effectiveRate = 0
          /\ FedOut.marginalRate = 0

\* C5: federalTax and ficaTax do not decrease when gross income increases
\* with filing status and deductions fixed.
C5_Monotone ==
  FederalReturned =>
    \A a \in GrossIncomes :
      a <= FedIn.grossIncome =>
        LET lower == calculateFederalTax([FedIn EXCEPT !.grossIncome = a])
        IN  /\ lower.federalTax <= FedOut.federalTax
            /\ lower.ficaTax <= FedOut.ficaTax

\* A result that is strictly above the result for some lower gross income in
\* both taxes, the lower income lying in an earlier bracket.
C5_Witness ==
  /\ FederalReturned
  /\ \E a \in GrossIncomes :
       /\ a < FedIn.grossIncome
       /\ LET lower == calculateFederalTax([FedIn EXCEPT !.grossIncome = a])
          IN  /\ lower.federalTax < FedOut.federalTax
              /\ lower.ficaTax < FedOut.ficaTax
              /\ lower.marginalRate < FedOut.marginalRate

\* The pre-tax deductions of the pool: "HSA" and "Roth 401K" contain hsa /
\* 401k when lower-cased; "401(k)", "Standard Deduction", "Mortgage" do not.
RECURSIVE RefPreTax(_)
RefPreTax(ds) ==
  IF ds = <<>> THEN 0
  ELSE (IF ds[1].label \in {ChHSA, ChRoth401K} THEN ds[1].amount ELSE 0)
         + RefPreTax(Tail(ds))

\* C6 as stated, on positive whole-dollar gross incomes: takeHome is the
\* returned grossIncome minus the returned federalTax minus the returned
\* ficaTax minus the pre-tax deductions.
C6_Original ==
  (FederalReturned /\ FedIn.grossIncome > 0 /\ FedIn.grossIncome % 100 = 0) =>
    FedOut.takeHome =
      FedOut.grossIncome - FedOut.federalTax - FedOut.ficaTax
        - RefPreTax(FedIn.deductions)

\* C6 amended: takeHome is gross minus the federal tax to the cent minus FICA
\* to the cent minus the pre-tax deductions, rounded to whole dollars; for
\* whole-dollar gross and pre-tax amounts it is within one dollar of the
\* expression over the returned, rounded federalTax and ficaTax.
C6_TakeHome ==
  FederalReturned =>
    LET fedCents  == computeFederalTax(FedOut.taxableIncome, FedIn.filingStatus).tax
        ficaCents == RefFICA(FedIn.grossIncome, FedIn.filingStatus)
        preTax    == RefPreTax(FedIn.deductions)
        returned  == FedOut.grossIncome - FedOut.federalTax - FedOut.ficaTax - preTax
    IN  /\ FedOut.takeHome = MathRound(FedOut.grossIncome - fedCents - ficaCents - preTax)
        /\ FedOut.federalTax = MathRound(fedCents)
        /\ (returned % 100 = 0 => FedOut.takeHome - returned \in {-100, 0, 100})

\* A result with a pre-tax and a non-pre-tax deduction whose takeHome differs
\* from the expression over the returned values.
C6_Witness ==
  /\ FederalReturned
  /\ RefPreTax(FedIn.deductions) > 0
  /\ RefPreTax(FedIn.deductions) < SumAmounts(FedIn.deductions)
  /\ FedIn.grossIncome > 0
  /\ FedIn.grossIncome % 100 = 0
  /\ FedOut.takeHome #
       FedOut.grossIncome - FedOut.federalTax - FedOut.ficaTax
         - RefPreTax(FedIn.deductions)

----------------------------------------------------------------------------
(* State Tax Engine: properties *)

StIn == request.input

\* The abbreviation matches a table entry when letter case is ignored.
KnownState(a) == \E k \in StateKeys : toLowerCase(k) = toLowerCase(a)

KeyOf(a) == CHOOSE k \in StateKeys : toLowerCase(k) = toLowerCase(a)

\* C7: an abbreviation matching no table entry (case-insensitively) makes
\* calculateStateTax fail with an error naming it, with no result at all;
\* a matching one gives the same result in whatever case it is written.
C7_UnknownStateFails ==
  StateReturned =>
    LET a == StIn.stateAbbreviation
    IN  IF ~KnownState(a)
        THEN /\ response.status = "error"
             /\ DOMAIN response = {"status", "message"}
             /\ response.message[1] = "Unknown state abbreviation: "
             /\ toLowerCase(response.message[2]) = toLowerCase(a)
        ELSE /\ response.status = "ok"
             /\ response.value.stateName = STATE_TAX_DATA[KeyOf(a)].name
             /\ \A v \in CaseVariants(KeyOf(a)) :
                  calculateStateTax([StIn EXCEPT !.stateAbbreviation = v]) = response

\* The unknown abbreviation "zz" was rejected.
C7_Witness ==
  /\ StateReturned
  /\ StIn.stateAbbreviation = <<"z","z">>
  /\ response.status = "error"

\* A known state written in lower case was answered.
C7_WitnessKnown ==
  /\ StateReturned
  /\ StIn.stateAbbreviation = <<"c","a">>
  /\ response.status = "ok"
  /\ response.value.stateTax > 0

\* The credits the table lists for the states without income tax.
RefNoneCredits(k) ==
  CASE k = <<"N","H">> -> << "Interest & dividends tax repealed as of 2025" >>
    [] k = <<"W","A">> -> << "Working Families Tax Credit" >>
    [] OTHER -> <<>>

\* C8: for a state whose regime is "none" the result has taxType "none",
\* stateTax 0, stateEffectiveRate 0, topRate 0, no brackets, and the
\* state's notable credits as the table lists them.
C8_NoneStatePassthrough ==
  (StateReturned /\ KnownState(StIn.stateAbbreviation)
     /\ STATE_TAX_DATA[KeyOf(StIn.stateAbbreviation)].taxType = "none") =>
    /\ response.status = "ok"
    /\ response.value.taxType = "none"
    /\ response.value.stateTax = 0
    /\ response.value.stateEffectiveRate = 0
    /\ response.value.topRate = 0
    /\ response.value.brackets = <<>>
    /\ response.value.notableCredits = RefNoneCredits(KeyOf(StIn.stateAbbreviation))

\* Washington (regime "none", one notable credit) answered for a positive income.
C8_Witness ==
  /\ StateReturned
  /\ toLowerCase(StIn.stateAbbreviation) = <<"w","a">>
  /\ StIn.grossIncome > 0
  /\ response.status = "ok"
  /\ response.value.notableCredits # <<>>

\* Rate of the bracket in which the taxable income ti ends: the highest
\* bracket lying (partly) below ti; 0 when ti is 0.
RateWhereIncomeEnds(brackets, ti) ==
  IF ti <= 0 THEN 0
  ELSE LET last == CHOOSE i \in 1..Len(brackets) :
                     /\ brackets[i].min < ti
                     /\ \A j \in 1..Len(brackets) : brackets[j].min < ti => j <= i
       IN  brackets[last].rate

\* C9: topRate (state, progressive) and marginalRate (federal) are the rate
\* of the last bracket traversed: 0 when taxable income is 0 (no bracket
\* traversed), and 0 for Ohio or Delaware when taxable income lies inside
\* the 0% bottom bracket.
C9_LastTraversedRate ==
  /\ (StateReturned /\ response.status = "ok"
        /\ response.value.taxType = "progressive") =>
       LET v  == response.value
           k  == KeyOf(StIn.stateAbbreviation)
           ti == Max(0, StIn.grossIncome - v.standardDeduction)
       IN  /\ v.topRate = RateWhereIncomeEnds(STATE_TAX_DATA[k].brackets, ti)
           /\ (ti = 0 => v.brackets = <<>> /\ v.topRate = 0)
           /\ (ti > 0 => v.brackets # <<>> /\ v.topRate = v.brackets[Len(v.brackets)].rate)
           /\ (k = <<"O","H">> /\ 0 < ti /\ ti <= 2605000 => v.topRate = 0)
           /\ (k = <<"D","E">> /\ 0 < ti /\ ti <= 200000 => v.topRate = 0)
  /\ FederalReturned =>
       LET ti == FedOut.taxableIncome
           b  == FedOut.bracketBreakdown
       IN  /\ FedOut.marginalRate = RateWhereIncomeEnds(BRACKETS[FedIn.filingStatus], ti)
           /\ (ti = 0 => b = <<>> /\ FedOut.marginalRate = 0)
           /\ (ti > 0 => b # <<>> /\ FedOut.marginalRate = b[Len(b)].rate)

\* Ohio answered for a positive taxable income inside its 0% bracket: one
\* bracket traversed, topRate 0, although the next bracket's rate is not 0.
C9_Witness ==
  /\ StateReturned
  /\ response.status = "ok"
  /\ response.value.stateAbbreviation = <<"O","H">>
  /\ StIn.grossIncome > 0
  /\ Len(response.value.brackets) = 1
  /\ response.value.brackets[1].taxableAmount > 0
  /\ response.value.topRate = 0
  /\ STATE_TAX_DATA[<<"O","H">>].brackets[2].rate > 0

\* The federal engine's walk and rounding, run on a state's own bracket table
\* with taxable income max(0, gross - the state's standard deduction).
FederalWalkOnStateTable(k, grossIncome) ==
  LET info == STATE_TAX_DATA[k]
      sd   == IF "standardDeduction" \in DOMAIN info THEN info.standardDeduction ELSE 0
      ti   == Max(0, grossIncome - sd)
      walk == FederalWalk(info.brackets, 1, Max(0, ti), ExactZero, 0, <<>>, ti)
  IN  [federalTax   |-> MathRound(walk.tax),
       marginalRate |-> walk.marginalRate,
       breakdown    |-> walk.breakdown]

ProgressiveReturned ==
  /\ StateReturned
  /\ response.status = "ok"
  /\ response.value.taxType = "progressive"

\* C22 as stated: for every progressive state and gross income the state
\* walk agrees with the federal walk on the state's table in the brackets
\* traversed, each bracket's taxableAmount and tax, the last rate, and the
\* total tax rounded to whole dollars.
C22_Original ==
  ProgressiveReturned =>
    LET ref == FederalWalkOnStateTable(KeyOf(StIn.stateAbbreviation), StIn.grossIncome)
    IN  /\ response.value.brackets = ref.breakdown
        /\ response.value.topRate = ref.marginalRate
        /\ response.value.stateTax = ref.federalTax

\* C22 amended: the state walk agrees with the federal walk on the state's
\* table in the brackets traversed, each bracket's taxableAmount and tax
\* (to the cent) and the last traversed rate; the total in whole dollars is
\* the same or one dollar apart, because the state engine adds up bracket
\* taxes already rounded to the cent while the federal engine adds up the
\* unrounded products.
C22_SameWalk ==
  ProgressiveReturned =>
    LET ref == FederalWalkOnStateTable(KeyOf(StIn.stateAbbreviation), StIn.grossIncome)
    IN  /\ response.value.brackets = ref.breakdown
        /\ response.value.topRate = ref.marginalRate
        /\ response.value.stateTax - ref.federalTax \in { -Dollars(1), 0, Dollars(1) }

\* An income that runs through several brackets of a state's table and on
\* which the two totals are a dollar apart.
C22_Witness ==
  /\ ProgressiveReturned
  /\ Len(response.value.brackets) >= 3
  /\ response.value.brackets
       = FederalWalkOnStateTable(KeyOf(StIn.stateAbbreviation), StIn.grossIncome).breakdown
  /\ response.value.stateTax
       # FederalWalkOnStateTable(KeyOf(StIn.stateAbbreviation), StIn.grossIncome).federalTax

----------------------------------------------------------------------------
(* Deduction Finder: properties *)

DfIn == request.input

DfOut == response.value

HasReason(d) == "reason" \in DOMAIN d

\* C10 as stated: no entry of the returned deductions has both
\* applicable = true and a reason.
C10_Original ==
  FinderReturned =>
    \A i \in 1..Len(DfOut.deductions) :
      HasReason(DfOut.deductions[i]) => ~DfOut.deductions[i].applicable

\* C10 amended: an entry that is a deduction carries a reason exactly when
\* it is not applicable; the Child Tax Credit entry is applicable and
\* carries a reason (that it is a credit, not a deduction), and it is the
\* only applicable entry with a reason.
C10_ReasonOnlyWhenInapplicable ==
  FinderReturned =>
    \A i \in 1..Len(DfOut.deductions) :
      LET d == DfOut.deductions[i]
      IN  IF startsWith(d.name, TxtChildTaxCredit)
          THEN d.applicable /\ HasReason(d) /\ d.reason = TxtThisIsATaxCredit
          ELSE /\ HasReason(d) <=> ~d.applicable
               /\ HasReason(d) => d.reason # <<>>

\* A result holding an applicable deduction without reason, an inapplicable
\* one with a reason, and the Child Tax Credit entry.
C10_Witness ==
  /\ FinderReturned
  /\ \E i, j, k \in 1..Len(DfOut.deductions) :
       /\ DfOut.deductions[i].applicable /\ ~HasReason(DfOut.deductions[i])
       /\ ~DfOut.deductions[j].applicable /\ HasReason(DfOut.deductions[j])
       /\ startsWith(DfOut.deductions[k].name, TxtChildTaxCredit)

AllTogglesDisabled(input) ==
  /\ ~input.hasStudentLoans
  /\ ~input.hasHSA
  /\ ~input.wantsIRA
  /\ ~input.donatesCharity
  /\ ~input.hasDependents

Is401kSuggestion(d) == startsWith(d.name, TxtIncrease401k)

IsCreditEntry(d) == startsWith(d.name, TxtChildTaxCredit)

\* The first current deduction whose lower-cased label contains "401k" is at
\* (or above) the annual cap.
Saturated401k(input) ==
  \E i \in 1..Len(input.currentDeductions) :
    /\ Has401k(input.currentDeductions[i])
    /\ input.currentDeductions[i].amount >= LIMIT_401K
    /\ \A j \in 1..(i - 1) : ~Has401k(input.currentDeductions[j])

\* The engine's federal tax on the caller's current deductions.
EngineTax(input) ==
  calculateFederalTax([grossIncome  |-> input.grossIncome,
                       filingStatus |-> input.filingStatus,
                       deductions   |-> input.currentDeductions]).federalTax

\* C11 as stated: with all five toggles disabled the result has
\* totalAnnualSavings = 0 and no applicable entry.
C11_Original ==
  (FinderReturned /\ AllTogglesDisabled(DfIn)) =>
    /\ DfOut.totalAnnualSavings = 0
    /\ \A i \in 1..Len(DfOut.deductions) : ~DfOut.deductions[i].applicable

\* C11 amended: with all five toggles disabled only the 401(k) rule is
\* evaluated.  The result holds no entry but the 401(k) suggestion, which is
\* present (applicable, for the amount missing to the cap) exactly when no
\* current deduction labelled "401k" is at the cap.  Without it the working
\* list is the current list, newFederalTax is the engine's tax on it and
\* totalAnnualSavings is the reported current tax less that, rounded and
\* floored at 0: it is 0 when the caller reports the engine's own figure.
C11_OnlyThe401kRule ==
  (FinderReturned /\ AllTogglesDisabled(DfIn)) =>
    /\ Len(DfOut.deductions) <= 1
    /\ (Len(DfOut.deductions) = 0) <=> Saturated401k(DfIn)
    /\ \A i \in 1..Len(DfOut.deductions) :
         /\ Is401kSuggestion(DfOut.deductions[i])
         /\ DfOut.deductions[i].applicable
         /\ DfOut.deductions[i].amount > 0
         /\ DfOut.deductions[i].amount = LIMIT_401K - current401k(DfIn)
    /\ Saturated401k(DfIn) =>
         /\ DfOut.newFederalTax = EngineTax(DfIn)
         /\ DfOut.totalAnnualSavings =
              Max(0, MathRound(DfIn.currentFederalTax - EngineTax(DfIn)))
         /\ (DfIn.currentFederalTax = EngineTax(DfIn)) => DfOut.totalAnnualSavings = 0

\* All toggles disabled, a 401k entry at the cap, a positive current tax:
\* nothing found and nothing saved.
C11_Witness ==
  /\ FinderReturned
  /\ AllTogglesDisabled(DfIn)
  /\ Saturated401k(DfIn)
  /\ DfIn.currentFederalTax > 0
  /\ DfOut.deductions = <<>>
  /\ DfOut.totalAnnualSavings = 0

\* A deduction the caller or the user interface would call a 401(k): its
\* label, lower-cased, holds "401k" or "401(k)".
Names401k(d) ==
  \/ includes(toLowerCase(d.label), <<"4","0","1","k">>)
  \/ includes(toLowerCase(d.label), <<"4","0","1","(","k",")">>)

\* C12: whenever the current deductions include a 401(k) entry whose amount
\* is the annual cap, additional401k is 0, no 401(k) suggestion is emitted,
\* no 401(k) entry is added to or replaced in the working list, and no
\* savings are attributed to the 401(k).
C12_CapSaturation ==
  (/\ FinderReturned
   /\ \E i \in 1..Len(DfIn.currentDeductions) :
        /\ Names401k(DfIn.currentDeductions[i])
        /\ DfIn.currentDeductions[i].amount = LIMIT_401K) =>
    /\ additional401k(DfIn) = 0
    /\ \A i \in 1..Len(DfOut.deductions) : ~Is401kSuggestion(DfOut.deductions[i])
    /\ \A i \in 1..Len(applicableDeductions(DfIn)) :
         applicableDeductions(DfIn)[i].label # Txt401kContribution

\* The eligibility conditions of the rules, as the specification's table
\* gives them, for a rule that is evaluated and fails.
LoanPhasedOut(input) ==
  /\ input.hasStudentLoans
  /\ Truthy(input, "loanBalance")
  /\ input.grossIncome > (IF input.filingStatus = "married_joint"
                          THEN Dollars(185000) ELSE Dollars(90000))

HSAAtCap(input) ==
  input.hasHSA /\ OrZero(input, "currentHSAContribution") >= Dollars(4150)

IRAIneligible(input) ==
  /\ input.wantsIRA
  /\ \/ input.grossIncome > (IF input.filingStatus = "married_joint"
                             THEN Dollars(143000) ELSE Dollars(87000))
     \/ OrZero(input, "currentIRAContribution") >= Dollars(7000)

CharityInsufficient(input) ==
  /\ input.donatesCharity
  /\ Truthy(input, "charityAmount")
  /\ SumAmounts(SelectSeq(input.currentDeductions, IsItemized)) + input.charityAmount
       <= STANDARD_DEDUCTIONS[input.filingStatus]

NoDependentCounted(input) ==
  input.hasDependents /\ ~(OrZero(input, "dependentCount") > 0)

\* The result has an entry of that name with applicable = false and a
\* non-empty reason.
ReportsInapplicable(out, name) ==
  \E i \in 1..Len(out.deductions) :
    /\ out.deductions[i].name = name
    /\ ~out.deductions[i].applicable
    /\ HasReason(out.deductions[i])
    /\ out.deductions[i].reason # <<>>

Mentions401(d) == includes(d.name, <<"4","0","1">>)

\* C13 as stated: every evaluated rule that fails (the four toggled
\* deductions, the 401(k) rule at the cap, dependents with a count not > 0)
\* leaves an entry with applicable = false and a non-empty reason.
C13_Original ==
  FinderReturned =>
    /\ LoanPhasedOut(DfIn)       => ReportsInapplicable(DfOut, TxtStudentLoanInterest)
    /\ HSAAtCap(DfIn)            => ReportsInapplicable(DfOut, TxtHSAContribution)
    /\ IRAIneligible(DfIn)       => ReportsInapplicable(DfOut, TxtTraditionalIRA)
    /\ CharityInsufficient(DfIn) => ReportsInapplicable(DfOut, TxtCharitable)
    /\ Saturated401k(DfIn) =>
         \E i \in 1..Len(DfOut.deductions) :
           /\ Mentions401(DfOut.deductions[i])
           /\ ~DfOut.deductions[i].applicable
           /\ HasReason(DfOut.deductions[i])
    /\ NoDependentCounted(DfIn) =>
         \E i \in 1..Len(DfOut.deductions) :
           /\ IsCreditEntry(DfOut.deductions[i])
           /\ ~DfOut.deductions[i].applicable
           /\ HasReason(DfOut.deductions[i])

\* C13 amended: the student loan, HSA, IRA and charity rules, when evaluated
\* and failing, each leave an entry with applicable = false, amount 0 (the
\* donated amount for charity) and a non-empty reason; the 401(k) rule at
\* the cap and the dependents rule with a count not > 0 leave no entry at
\* all, and neither does the student loan toggle without a balance.
C13_FailedRulesReported ==
  FinderReturned =>
    /\ LoanPhasedOut(DfIn)       => ReportsInapplicable(DfOut, TxtStudentLoanInterest)
    /\ HSAAtCap(DfIn)            => ReportsInapplicable(DfOut, TxtHSAContribution)
    /\ IRAIneligible(DfIn)       => ReportsInapplicable(DfOut, TxtTraditionalIRA)
    /\ CharityInsufficient(DfIn) => ReportsInapplicable(DfOut, TxtCharitable)
    /\ Saturated401k(DfIn) =>
         \A i \in 1..Len(DfOut.deductions) : ~Mentions401(DfOut.deductions[i])
    /\ NoDependentCounted(DfIn) =>
         \A i \in 1..Len(DfOut.deductions) : ~IsCreditEntry(DfOut.deductions[i])
    /\ (DfIn.hasStudentLoans /\ ~Truthy(DfIn, "loanBalance")) =>
         \A i \in 1..Len(DfOut.deductions) :
           DfOut.deductions[i].name # TxtStudentLoanInterest
    /\ \A i \in 1..Len(DfOut.deductions) :
         ~DfOut.deductions[i].applicable =>
           DfOut.deductions[i].amount =
             (IF DfOut.deductions[i].name = TxtCharitable
              THEN DfIn.charityAmount ELSE 0)

\* All six rules fail at once: four inapplicable entries are reported, none
\* for the 401(k) or the dependents.
C13_Witness ==
  /\ FinderReturned
  /\ LoanPhasedOut(DfIn) /\ HSAAtCap(DfIn) /\ IRAIneligible(DfIn)
  /\ CharityInsufficient(DfIn) /\ Saturated401k(DfIn) /\ NoDependentCounted(DfIn)
  /\ Len(DfOut.deductions) = 4
  /\ \A i \in 1..4 : ~DfOut.deductions[i].applicable /\ HasReason(DfOut.deductions[i])

IsReportedDeduction(d) == d.applicable /\ ~IsCreditEntry(d)

\* C14: the total of the deductions passed to the Federal Tax Engine is the
\* total of the current deductions plus the reported amounts of all
\* applicable non-credit entries, every such entry having been added to or
\* replaced in the working list.
C14_WorkingListTotal ==
  FinderReturned =>
    newResult(DfIn).totalDeductions =
      SumAmounts(DfIn.currentDeductions)
        + SumAmounts(SelectSeq(DfOut.deductions, IsReportedDeduction))

\* The credit of the claim: dependentCount x 2,000 when dependents are
\* enabled, 0 otherwise.
RefCredit(input) ==
  IF input.hasDependents
  THEN (IF Defined(input, "dependentCount") THEN input.dependentCount ELSE 0)
         * Dollars(2000)
  ELSE 0

\* round(totalAnnualSavings / 12), in whole dollars, for a whole number of
\* dollars: the nearest integer, the half going up.
RefMonthly(total) ==
  LET t == total \div CentsPerDollar
      q == t \div 12
  IN  Dollars(IF 2 * (t % 12) >= 12 THEN q + 1 ELSE q)

\* C15 as stated: newFederalTax = max(0, F - credit),
\* totalAnnualSavings = max(0, currentFederalTax - newFederalTax), neither is
\* negative, and totalMonthlySavings = round(totalAnnualSavings / 12).
C15_Original ==
  FinderReturned =>
    /\ DfOut.newFederalTax = Max(0, newResult(DfIn).federalTax - RefCredit(DfIn))
    /\ DfOut.totalAnnualSavings = Max(0, DfIn.currentFederalTax - DfOut.newFederalTax)
    /\ DfOut.newFederalTax >= 0
    /\ DfOut.totalAnnualSavings >= 0
    /\ DfOut.totalMonthlySavings = RefMonthly(DfOut.totalAnnualSavings)

\* C15 amended: newFederalTax = max(0, F - credit); totalAnnualSavings is
\* currentFederalTax - newFederalTax rounded to whole dollars and floored at
\* 0, which is max(0, currentFederalTax - newFederalTax) when the reported
\* current tax is a whole number of dollars; neither is negative and
\* totalMonthlySavings = round(totalAnnualSavings / 12).
C15_NewTaxAndSavings ==
  FinderReturned =>
    /\ DfOut.newFederalTax = Max(0, newResult(DfIn).federalTax - RefCredit(DfIn))
    /\ DfOut.totalAnnualSavings =
         Max(0, MathRound(DfIn.currentFederalTax - DfOut.newFederalTax))
    /\ (DfIn.currentFederalTax % CentsPerDollar = 0) =>
         DfOut.totalAnnualSavings = Max(0, DfIn.currentFederalTax - DfOut.newFederalTax)
    /\ DfOut.newFederalTax >= 0
    /\ DfOut.totalAnnualSavings >= 0
    /\ DfOut.totalAnnualSavings % CentsPerDollar = 0
    /\ DfOut.totalMonthlySavings = RefMonthly(DfOut.totalAnnualSavings)

\* The credit exceeds the engine's tax, so the floor at 0 acts, and the
\* savings are positive.
C15_Witness ==
  /\ FinderReturned
  /\ RefCredit(DfIn) > newResult(DfIn).federalTax
  /\ newResult(DfIn).federalTax > 0
  /\ DfOut.newFederalTax = 0
  /\ DfOut.totalAnnualSavings > 0
  /\ DfOut.totalMonthlySavings > 0

\* Exact products of amounts in cents, as three digits in base 10000 (the
\* top one signed), for 0 <= x.
BigMul(x, y) ==
  LET base == 10000
      x1 == x \div base
      x0 == x % base
      y1 == y \div base
      y0 == y % base
      c0 == x0 * y0
      c1 == x1 * y0 + x0 * y1 + (c0 \div base)
  IN  << x1 * y1 + (c1 \div base), c1 % base, c0 % base >>

BigLess(p, q) ==
  \/ p[1] < q[1]
  \/ p[1] = q[1] /\ p[2] < q[2]
  \/ p[1] = q[1] /\ p[2] = q[2] /\ p[3] < q[3]

\* v is (amount / total) * pool rounded to whole dollars, the half going up:
\* v - 0.50 <= amount * pool / total < v + 0.50.
IsRoundedShare(v, amount, total, pool) ==
  /\ v % CentsPerDollar = 0
  /\ ~BigLess(BigMul(amount, pool), BigMul(total, v - 50))
  /\ BigLess(BigMul(amount, pool), BigMul(total, v + 50))

\* C16: when at least one non-credit deduction is applicable and the tax
\* savings are positive, each applicable non-credit entry's annualSavings is
\* its share (its amount over the sum of the applicable non-credit amounts)
\* of taxSavings - childCredit, rounded to whole dollars; the credit entry's
\* annualSavings is exactly the credit and it takes no part in the split.
C16_ProportionalShares ==
  FinderReturned =>
    LET taxSavings == DfIn.currentFederalTax - DfOut.newFederalTax
        total      == SumAmounts(SelectSeq(DfOut.deductions, IsReportedDeduction))
    IN  ((\E i \in 1..Len(DfOut.deductions) : IsReportedDeduction(DfOut.deductions[i]))
          /\ taxSavings > 0) =>
          \A i \in 1..Len(DfOut.deductions) :
            LET d == DfOut.deductions[i]
            IN  CASE IsCreditEntry(d) ->
                       d.annualSavings = RefCredit(DfIn) /\ d.amount = RefCredit(DfIn)
                  [] IsReportedDeduction(d) ->
                       /\ total > 0
                       /\ IsRoundedShare(d.annualSavings, d.amount, total,
                                         taxSavings - RefCredit(DfIn))
                  [] OTHER -> d.annualSavings = 0

\* Positive savings split over two applicable deductions next to a credit:
\* the shares are positive and differ, and the credit entry keeps the credit.
C16_Witness ==
  /\ FinderReturned
  /\ DfIn.currentFederalTax - DfOut.newFederalTax > RefCredit(DfIn)
  /\ RefCredit(DfIn) > 0
  /\ \E i, j, k \in 1..Len(DfOut.deductions) :
       /\ IsReportedDeduction(DfOut.deductions[i])
       /\ IsReportedDeduction(DfOut.deductions[j])
       /\ 0 < DfOut.deductions[i].annualSavings
       /\ DfOut.deductions[i].annualSavings < DfOut.deductions[j].annualSavings
       /\ IsCreditEntry(DfOut.deductions[k])
       /\ DfOut.deductions[k].annualSavings = RefCredit(DfIn)

NonNegativeInput(input) ==
  /\ input.grossIncome >= 0
  /\ input.currentFederalTax >= 0
  /\ \A i \in 1..Len(input.currentDeductions) : input.currentDeductions[i].amount >= 0
  /\ \A f \in { "studentLoanInterest", "hsaContribution", "iraContribution",
                 "charityAmount", "dependentCount" } :
       Defined(input, f) => input[f] >= 0

\* C25: for every input with non-negative amounts and counts, every entry
\* of the result has annualSavings >= 0, also when a dependent credit is
\* present or exceeds the recomputed tax.
C25_NonNegativeSavings ==
  (FinderReturned /\ NonNegativeInput(DfIn)) =>
    \A i \in 1..Len(DfOut.deductions) : DfOut.deductions[i].annualSavings >= 0

RECURSIVE SumSavings(_)
SumSavings(ds) ==
  IF ds = <<>> THEN 0 ELSE Head(ds).annualSavings + SumSavings(Tail(ds))

IsApplicable(d) == d.applicable

\* C26: the annualSavings of all applicable entries (deductions and the
\* dependent credit) add up to totalAnnualSavings, up to one dollar of
\* rounding per entry; the itemised savings never exceed the reported total
\* by more than that.
C26_SavingsAddUp ==
  (FinderReturned /\ NonNegativeInput(DfIn)) =>
    LET entries == SelectSeq(DfOut.deductions, IsApplicable)
        slack   == Len(entries) * Dollars(1)
    IN  /\ SumSavings(entries) <= DfOut.totalAnnualSavings + slack
        /\ SumSavings(entries) >= DfOut.totalAnnualSavings - slack

\* A pre-tax contribution of the working list: a 401(k) entry (written
\* "401k" or "401(k)") or an HSA entry.
IsPreTaxContribution(d) ==
  Names401k(d) \/ includes(toLowerCase(d.label), Lhsa)

\* C27: newTakeHome is grossIncome minus the new federal tax minus FICA minus
\* every 401(k) and HSA contribution of the working deduction list, rounded
\* to whole dollars; a contribution raised to its cap (23,000 / 4,150) is
\* among the amounts subtracted.
C27_NewTakeHome ==
  FinderReturned =>
    LET working == applicableDeductions(DfIn)
        newTax  == adjustedNewTax(newResult(DfIn).federalTax, childCredit(DfIn))
    IN  DfOut.newTakeHome =
          MathRound(DfIn.grossIncome - newTax
                      - computeFICA(DfIn.grossIncome, DfIn.filingStatus)
                      - SumAmounts(SelectSeq(working, IsPreTaxContribution)))

----------------------------------------------------------------------------
(* Tax-Rule Lookup properties *)

Members(seq) == { seq[i] : i \in 1..Len(seq) }

\* The categories with some keyword contained in the lower-cased query.
MatchingCategories(q) ==
  { KEYWORD_MAP[i].category :
      i \in { j \in 1..Len(KEYWORD_MAP) :
                \E k \in 1..Len(KEYWORD_MAP[j].keywords) :
                  includes(toLowerCase(q), KEYWORD_MAP[j].keywords[k]) } }

DefaultCategories == { "brackets", "standard deduction", "fica" }

EntriesOf(categories) ==
  UNION { Members(TAX_RULES_2025[c]) : c \in categories \cap DOMAIN TAX_RULES_2025 }

----------------------------------------------------------------------------
(* Geolocation properties *)

Fetched == request.fetch

\* The reply carries an object whose region is a state of the table.
RegionIsAState ==
  /\ Fetched.kind = "response"
  /\ Fetched.ok
  /\ Fetched.body = "object"
  /\ Defined(Fetched.data, "region")
  /\ Fetched.data.region \in DOMAIN STATE_NAME_TO_ABBR

AdvisesAskingTheUser(r) ==
  /\ r.status = "error"
  /\ r.message[1] = "Failed to detect location: "
  /\ r.message[Len(r.message)] = ". Ask the user which state they live in instead."

\* C19: getUserLocation either returns a complete location whose
\* abbreviation is the table entry for the detected region and whose city is
\* the detected city, or fails; on every failure path (network error, non-OK
\* status, region not mappable to a U.S. state) the error advises asking the
\* user for their state; no partial or defaulted location is returned.
C19_CompleteOrFails ==
  LocationReturned =>
    /\ response.status = "ok" =>
         /\ RegionIsAState
         /\ response.value.stateName = Fetched.data.region
         /\ response.value.stateAbbreviation =
              [kind |-> "string", value |-> STATE_NAME_TO_ABBR[Fetched.data.region]]
         /\ Defined(Fetched.data, "city")
         /\ response.value.city = Fetched.data.city
    /\ ~RegionIsAState => AdvisesAskingTheUser(response)

----------------------------------------------------------------------------
(* DeductionFinder component properties *)

\* C20: a grossIncome (or filingStatus) prop supplied by the caller
\* overrides the shared TaxCalculator context: whenever the prop is provided
\* (and the user has typed no income of their own into the component) the
\* component computes with the prop's value, and the shared-context value is
\* used only when the prop is omitted.
C20_PropOverridesContext ==
  (ComponentRendered /\ ~Defined(request.state, "incomeOverride")) =>
    /\ Defined(request.props, "grossIncome") =>
         response.value.resolvedIncome = request.props.grossIncome
    /\ Defined(request.props, "filingStatus") =>
         response.value.resolvedFiling = request.props.filingStatus
    /\ (~Defined(request.props, "grossIncome") /\ request.taxCtx.income > 0) =>
         response.value.resolvedIncome = request.taxCtx.income
    /\ (~Defined(request.props, "filingStatus") /\ request.taxCtx.income > 0) =>
         response.value.resolvedFiling = request.taxCtx.filingStatus

----------------------------------------------------------------------------
(* TaxCalculator component properties *)

\* calculateFederalTax applied to the component's current inputs.
LiveResult == calculateFederalTax(CalculatorRequest(calculator.state))

\* C21: once every pending calculation has resolved, the result the
\* TaxCalculator displays and the shared tax context (income, filingStatus,
\* contributions, result) are those of calculateFederalTax applied to the
\* component's current inputs: a result is there whenever the income is
\* positive, and no result for earlier inputs is displayed or shared.
C21_LiveResult ==
  (calculator.mounted /\ pendingResults = <<>>) =>
    /\ calculator.state.income > 0 =>
         /\ calculator.state.result # NullResult
         /\ taxContext.result # NullResult
    /\ calculator.state.result # NullResult => calculator.state.result = LiveResult
    /\ taxContext.result # NullResult =>
         taxContext = [calculator.state EXCEPT !.result = LiveResult]

----------------------------------------------------------------------------
(* Bracket tables: properties *)

\* The table starts at 0, every bracket but the last is bounded, non-empty
\* and ends where the next begins, and the last bracket is unbounded.
Contiguous(brackets) ==
  /\ Len(brackets) >= 1
  /\ brackets[1].min = 0
  /\ brackets[Len(brackets)].max = NULL
  /\ \A i \in 1..(Len(brackets) - 1) :
       /\ brackets[i].max # NULL
       /\ brackets[i].min < brackets[i].max
       /\ brackets[i + 1].min = brackets[i].max
       /\ brackets[i].min < brackets[i + 1].min

\* The brackets whose range [min, max) holds the income.
Holding(brackets, ti) ==
  { i \in 1..Len(brackets) :
      /\ brackets[i].min <= ti
      /\ (brackets[i].max = NULL \/ ti < brackets[i].max) }

ProgressiveStates ==
  { k \in StateKeys : STATE_TAX_DATA[k].taxType = "progressive" }

\* C23: every compiled-in bracket table (the four federal tables and every
\* progressive state's table) starts at min 0, is ascending by min, has each
\* bracket's min equal to the previous bracket's max with min < max, and has
\* exactly its last bracket unbounded; so the taxable income of every call is
\* held by exactly one bracket of the table the call uses.
C23_TablesPartition ==
  /\ \A fs \in FilingStatuses : Contiguous(BRACKETS[fs])
  /\ \A k \in ProgressiveStates : Contiguous(STATE_TAX_DATA[k].brackets)
  /\ FederalReturned =>
       Cardinality(Holding(BRACKETS[FedIn.filingStatus], FedOut.taxableIncome)) = 1
  /\ ProgressiveReturned =>
       Cardinality(Holding(STATE_TAX_DATA[KeyOf(StIn.stateAbbreviation)].brackets,
                           Max(0, StIn.grossIncome - response.value.standardDeduction))) = 1

\* A call whose taxable income lies exactly on the border between two
\* brackets: it belongs to the upper one only.
C23_Witness ==
  /\ FederalReturned
  /\ FedOut.taxableIncome = BRACKETS[FedIn.filingStatus][3].min
  /\ Holding(BRACKETS[FedIn.filingStatus], FedOut.taxableIncome) = {3}

----------------------------------------------------------------------------
(* Dashboard bridge: properties *)

AddReturned == pc = "returned" /\ request.fn = "addDashboardWidget"

RemoveReturned == pc = "returned" /\ request.fn = "removeDashboardWidget"

RegisteredWidgetNames ==
  { "MetricCard", "AreaChart", "DonutChart", "BarChart", "FunnelChart", "DataTable" }

\* C24: before the first setBridgeCallbacks, addDashboardWidget and
\* removeDashboardWidget return success = false with the error "Dashboard
\* bridge not initialized" and invoke no callback; afterwards
\* addDashboardWidget invokes the registered add callback exactly once and
\* returns success with the id it produced if and only if componentName is
\* one of the six registered widget names, and otherwise returns success =
\* false naming the unknown component without invoking any callback.
C24_BridgeGuards ==
  /\ ((AddReturned \/ RemoveReturned) /\ bridge = EmptyBridge) =>
       /\ response = [success |-> FALSE, error |-> <<"Dashboard bridge not initialized">>]
       /\ invoked = <<>>
  /\ (AddReturned /\ bridge # EmptyBridge) =>
       IF request.componentName \in RegisteredWidgetNames
       THEN /\ response.success
            /\ Len(invoked) = 1
            /\ invoked[1].fn = bridge.addComponent
            /\ invoked[1].component.name = request.componentName
            /\ dashboard.components # <<>>
            /\ response.componentId = dashboard.components[Len(dashboard.components)].id
       ELSE /\ ~response.success
            /\ invoked = <<>>
            /\ response.error[1] = "Unknown component: "
            /\ response.error[2] = request.componentName

----------------------------------------------------------------------------
(* Dashboard data widgets: properties *)

\* C30 as stated: the data a widget holds always comes from the request
\* issued under its current filter values.
C30_Original ==
  (widget.mounted /\ widget.data # NoData) =>
    widget.data.params = widget.filters

\* C30 amended: whenever a widget stores data it is mounted, and the data is
\* the response of the request its latest effect issued, under the filter
\* values it has at that moment; the response of a request issued before
\* the filters last changed or before the unmount is never stored.  Until
\* the latest request completes, the widget keeps the data stored before.
C30_StoresCurrentOnly ==
  [][widget'.data # widget.data =>
       /\ widget.mounted
       /\ widget'.data.id = widget.cleanup
       /\ widget'.data.params = widget.filters
       /\ widget'.data.fn = DataFunction(widget.kind)
       /\ widget'.filters = widget.filters]_vars

\* The widget holds the response of its current request while the request
\* of earlier filter values, cancelled, is still in flight.
C30_Witness ==
  /\ widget.mounted
  /\ widget.data # NoData
  /\ widget.data.id = widget.cleanup
  /\ \E i \in 1..Len(fetches) : fetches[i].cancelled

====
